---- MODULE Spec2Model ----
(***************************************************************************)
(* A model of led_controller.py: the WLED-style facade of LEDController,    *)
(* the translation of a call into Hyperion JSON-RPC round trips            *)
(* (_send_command) and the status it derives from the serverinfo read      *)
(* back.  One public call runs as a sequence of steps, one step per        *)
(* transport round trip (_send_hyperion_command); what the peer answers    *)
(* to a round trip is chosen by the environment.                           *)
(*                                                                         *)
(* Python values: an optional argument is None (<<>>) or Some(v) (<<v>>);  *)
(* a dict is a record whose DOMAIN holds exactly the keys present; a str   *)
(* that the code slices or parses is a sequence of one-character strings.  *)
(***************************************************************************)
EXTENDS Integers, Sequences, FiniteSets, TLC

VARIABLES
    ip_address,     \* self.ip_address: None or Some(host)
    auth_token,     \* self.auth_token: None or Some(token)
    port,           \* self.port
    preset_map,     \* WLED_TO_HYPERION_PRESET_MAP, in dict order
    op,             \* the public method of the call in progress / last made
    args,           \* its arguments
    state_params,   \* the WLED-style dict handed to _send_command (<<>>: None)
    pc,             \* where the call stands
    server_info_before,               \* _send_command's local (None or Some(info))
    is_hyperion_leddevice_on_before,  \* _send_command's local
    current_info_for_toggle,          \* _send_command's local (None or Some(info))
    current_led_state_for_toggle,     \* _send_command's local
    final_hyperion_info,              \* _send_command's local (None or Some(info))
    log,            \* the transport round trips of the call, in order
    status,         \* what the call returned
    sock            \* _send_hyperion_command: its socket and receive loop

vars == <<ip_address, auth_token, port, preset_map, op, args, state_params, pc,
          server_info_before, is_hyperion_leddevice_on_before,
          current_info_for_toggle, current_led_state_for_toggle,
          final_hyperion_info, log, status, sock>>

None == <<>>
Some(v) == <<v>>
IsNone(x) == x = <<>>
Val(x) == x[1]

(***************************************************************************)
(* Module constants, lines 10-13.                                          *)
(***************************************************************************)
HYPERION_DEFAULT_PORT == 19444
HYPERION_DEFAULT_PRIORITY == 50
HYPERION_COMPONENT_LEDDEVICE == "LEDDEVICE"
HYPERION_ORIGIN_NAME == <<"L","E","D","C","o","n","t","r","o","l","l","e","r">>

WLED_TO_HYPERION_EFFECT_MAP ==
    (2 :> "Breath") @@ (5 :> "Random") @@ (7 :> "Random")
    @@ (8 :> "Rainbow mood") @@ (9 :> "Rainbow swirl") @@ (10 :> "Knight rider")
    @@ (11 :> "Knight rider") @@ (12 :> "Breath") @@ (15 :> "Waves with Color")
    @@ (17 :> "Sparks") @@ (20 :> "Sparks") @@ (28 :> "Snake")
    @@ (38 :> "Cold mood blobs") @@ (40 :> "Knight rider") @@ (42 :> "Sparks")
    @@ (43 :> "Sparks") @@ (45 :> "Fire") @@ (47 :> "Knight rider")
    @@ (49 :> "X-Mas") @@ (51 :> "X-Mas") @@ (57 :> "Strobe white")
    @@ (63 :> "Rainbow swirl") @@ (66 :> "Fire") @@ (67 :> "Waves with Color")
    @@ (74 :> "Sparks") @@ (75 :> "Sea waves") @@ (76 :> "Trails")
    @@ (77 :> "Trails") @@ (80 :> "X-Mas") @@ (88 :> "Candle")
    @@ (89 :> "Sparks") @@ (92 :> "Knight rider") @@ (97 :> "Plasma")
    @@ (100 :> "Breath") @@ (101 :> "Sea waves") @@ (102 :> "Candle")
    @@ (105 :> "Waves with Color") @@ (108 :> "Waves with Color")
    @@ (121 :> "Full color mood blobs")
    @@ (131 :> "Matrix") @@ (153 :> "Matrix") @@ (154 :> "Plasma")
    @@ (162 :> "Waves with Color") @@ (166 :> "Warm mood blobs")
    @@ (175 :> "Double swirl")
    @@ (179 :> "Rainbow swirl") @@ (180 :> "Plasma") @@ (183 :> "Atomic swirl")
    @@ (184 :> "Waves with Color")

\* dict.get(key): None when the key is absent.
EffectMapGet(idx) ==
    IF idx \in DOMAIN WLED_TO_HYPERION_EFFECT_MAP
    THEN Some(WLED_TO_HYPERION_EFFECT_MAP[idx]) ELSE None

(***************************************************************************)
(* The preset map is a sequence of <<id, action>> in dict order.  The map  *)
(* as shipped holds two effect presets; the comment of line 83 gives the   *)
(* colour form of preset 1.                                                *)
(***************************************************************************)
EffectAction(name) == [type |-> "effect", name |-> name]
ColorAction(rgb) == [type |-> "color", rgb |-> rgb]

WLED_TO_HYPERION_PRESET_MAP ==
    << <<1, EffectAction("Preset01")>>, <<2, EffectAction("Preset02")>> >>

PresetMapWithColor ==
    << <<1, ColorAction(<<76, 245, 245>>)>>, <<2, EffectAction("Preset02")>> >>

PresetMaps == {WLED_TO_HYPERION_PRESET_MAP, PresetMapWithColor}

\* A map in which two ids share one effect, to tell the first match from the last.
PresetMapWithSharedEffect ==
    << <<1, EffectAction("Preset01")>>, <<2, EffectAction("Preset02")>>,
       <<3, EffectAction("Preset02")>> >>

AnyPresetMaps == PresetMaps \cup {PresetMapWithSharedEffect}

\* A map whose ids have five and seven digits: with the first the origin of
\* line 313 has exactly 20 characters, with the second it is cut.
PresetMapWithLargeIds ==
    << <<12345, EffectAction("Preset01")>>,
       <<1234567, ColorAction(<<255, 0, 0>>)>> >>

PresetIds(map) == {map[i][1] : i \in 1..Len(map)}

PresetMapGet(map, pid) ==
    IF pid \in PresetIds(map)
    THEN Some(map[CHOOSE i \in 1..Len(map) : map[i][1] = pid][2])
    ELSE None

(***************************************************************************)
(* Python helpers.                                                         *)
(***************************************************************************)
\* d.get(k, default)
Get(d, k, default) == IF k \in DOMAIN d THEN d[k] ELSE default

Min(a, b) == IF a < b THEN a ELSE b
Max(a, b) == IF a > b THEN a ELSE b

\* round(n / d) for d > 0: Python rounds a tie to the even neighbour.
PyRound(n, d) ==
    LET f == n \div d
        r2 == 2 * (n - f * d)
    IN  IF r2 > d THEN f + 1
        ELSE IF r2 < d THEN f
        ELSE IF f % 2 = 0 THEN f ELSE f + 1

\* x or 0, for an optional int
OrZero(x) == IF IsNone(x) \/ Val(x) = 0 THEN 0 ELSE Val(x)

\* s[:n]
Take(s, n) == SubSeq(s, 1, Min(Len(s), n))

DigitChar(d) ==
    CASE d = 0 -> "0" [] d = 1 -> "1" [] d = 2 -> "2" [] d = 3 -> "3"
      [] d = 4 -> "4" [] d = 5 -> "5" [] d = 6 -> "6" [] d = 7 -> "7"
      [] d = 8 -> "8" [] d = 9 -> "9"

RECURSIVE NatStr(_)
NatStr(n) == IF n < 10 THEN <<DigitChar(n)>>
             ELSE NatStr(n \div 10) \o <<DigitChar(n % 10)>>

\* str(n) of an int
IntStr(n) == IF n < 0 THEN <<"-">> \o NatStr(0 - n) ELSE NatStr(n)

(***************************************************************************)
(* _hex_to_rgb, lines 420-425: strip every leading '#', demand six         *)
(* characters, parse three base-16 pairs.  HexValue is -1 for a character  *)
(* int(_, 16) rejects.                                                     *)
(***************************************************************************)
HexValue(c) ==
    CASE c = "0" -> 0 [] c = "1" -> 1 [] c = "2" -> 2 [] c = "3" -> 3
      [] c = "4" -> 4 [] c = "5" -> 5 [] c = "6" -> 6 [] c = "7" -> 7
      [] c = "8" -> 8 [] c = "9" -> 9
      [] c \in {"a", "A"} -> 10 [] c \in {"b", "B"} -> 11
      [] c \in {"c", "C"} -> 12 [] c \in {"d", "D"} -> 13
      [] c \in {"e", "E"} -> 14 [] c \in {"f", "F"} -> 15
      [] OTHER -> -1

RECURSIVE LStripHash(_)
LStripHash(s) ==
    IF Len(s) > 0 /\ Head(s) = "#" THEN LStripHash(Tail(s)) ELSE s

\* Whether _hex_to_rgb returns (TRUE) or raises ValueError (FALSE).
HexValid(hex_color) ==
    LET h == LStripHash(hex_color)
    IN  /\ Len(h) = 6
        /\ \A i \in 1..6 : HexValue(h[i]) >= 0

\* Variant: the digit pairs are read in reverse order.
hex_to_rgb_Reversed(hex_color) ==
    LET h == LStripHash(hex_color)
    IN  << 16 * HexValue(h[5]) + HexValue(h[6]),
           16 * HexValue(h[3]) + HexValue(h[4]),
           16 * HexValue(h[1]) + HexValue(h[2]) >>

hex_to_rgb(hex_color) ==
    LET h == LStripHash(hex_color)
    IN  << 16 * HexValue(h[1]) + HexValue(h[2]),
           16 * HexValue(h[3]) + HexValue(h[4]),
           16 * HexValue(h[5]) + HexValue(h[6]) >>

(***************************************************************************)
(* Reading a serverinfo snapshot.  An info is a record with the optional   *)
(* keys components, adjustment and priorities.                             *)
(***************************************************************************)
\* Lines 195-200 and 340-344: the enabled flag of the first component named
\* LEDDEVICE, False when there is none.
LedDeviceEnabled(info) ==
    LET comps == Get(info, "components", <<>>)
        hits == {i \in 1..Len(comps) :
                    Get(comps[i], "name", "") = HYPERION_COMPONENT_LEDDEVICE}
    IN  IF hits = {} THEN FALSE
        ELSE LET first == CHOOSE i \in hits : \A j \in hits : i <= j
             IN  Get(comps[first], "enabled", FALSE)

\* Lines 347-354: the brightness of the first adjustment carrying one, else 100.
HyperionBrightness(info) ==
    LET adjs == Get(info, "adjustment", <<>>)
        hits == {i \in 1..Len(adjs) : "brightness" \in DOMAIN adjs[i]}
    IN  IF hits = {} THEN 100
        ELSE adjs[CHOOSE i \in hits : \A j \in hits : i <= j].brightness

\* Line 356
WledBrightness(info) == PyRound(HyperionBrightness(info) * 255, 100)

\* Variant: int() where the code rounds.
HyperionBrightnessTarget_Truncated(bri) == Max(0, Min(100, (bri * 100) \div 255))

\* Line 241
HyperionBrightnessTarget(bri) == Max(0, Min(100, PyRound(bri * 100, 255)))

\* Line 362: the first source flagged visible, None when there is none.
VisiblePrioritySource(info) ==
    LET prios == Get(info, "priorities", <<>>)
        hits == {i \in 1..Len(prios) : Get(prios[i], "visible", FALSE)}
    IN  IF hits = {} THEN None
        ELSE Some(prios[CHOOSE i \in hits : \A j \in hits : i <= j])

\* all(a == b for a, b in zip(x, y)), line 377
ZipAllEqual(x, y) == \A i \in 1..Min(Len(x), Len(y)) : x[i] = y[i]

\* Variant: colour entries never match.
PresetMatches_EffectOnly(action, source) ==
    /\ action.type = "effect"
    /\ Get(source, "componentId", "") = "EFFECT"
    /\ "owner" \in DOMAIN source
    /\ action.name = source.owner

\* Variant: an effect entry matches only in the call that applied a preset.
PresetMatches_OwnPresetOnly(action, source) ==
    LET component_id == Get(source, "componentId", "")
        active_color_rgb == Get(Get(source, "value", <<>>), "RGB", <<>>)
    IN  \/ /\ action.type = "effect"
           /\ component_id = "EFFECT"
           /\ "owner" \in DOMAIN source
           /\ action.name = source.owner
           /\ op = "set_preset"
        \/ /\ action.type = "color"
           /\ component_id = "COLOR"
           /\ active_color_rgb # <<>>
           /\ ZipAllEqual(action.rgb, active_color_rgb)

\* The condition of lines 370-371 and 375-377 for one map entry.
PresetMatches(action, source) ==
    LET component_id == Get(source, "componentId", "")
        active_color_rgb == Get(Get(source, "value", <<>>), "RGB", <<>>)
    IN  \/ /\ action.type = "effect"
           /\ component_id = "EFFECT"
           /\ "owner" \in DOMAIN source
           /\ action.name = source.owner
        \/ /\ action.type = "color"
           /\ component_id = "COLOR"
           /\ active_color_rgb # <<>>
           /\ ZipAllEqual(action.rgb, active_color_rgb)

\* Variant: the last matching entry wins.
ActiveWledPresetId_LastMatch(map, info) ==
    LET vis == VisiblePrioritySource(info)
    IN  IF IsNone(vis) THEN -1
        ELSE LET hits == {i \in 1..Len(map) : PresetMatches(map[i][2], Val(vis))}
             IN  IF hits = {} THEN -1
                 ELSE map[CHOOSE i \in hits : \A j \in hits : i >= j][1]

\* Lines 359-379: the id of the first map entry the visible source matches.
ActiveWledPresetId(map, info) ==
    LET vis == VisiblePrioritySource(info)
    IN  IF IsNone(vis) THEN -1
        ELSE LET hits == {i \in 1..Len(map) : PresetMatches(map[i][2], Val(vis))}
             IN  IF hits = {} THEN -1
                 ELSE map[CHOOSE i \in hits : \A j \in hits : i <= j][1]

(***************************************************************************)
(* Caller-supplied values that the code coerces: a Python int, None, or a  *)
(* str (a sequence of characters).                                         *)
(***************************************************************************)
PyInt(n) == [t |-> "int", v |-> n]
PyNone == [t |-> "none"]
PyStr(chars) == [t |-> "str", s |-> chars]

DecValue(c) ==
    CASE c = "0" -> 0 [] c = "1" -> 1 [] c = "2" -> 2 [] c = "3" -> 3
      [] c = "4" -> 4 [] c = "5" -> 5 [] c = "6" -> 6 [] c = "7" -> 7
      [] c = "8" -> 8 [] c = "9" -> 9 [] OTHER -> -1

RECURSIVE DigitsValue(_)
DigitsValue(s) ==
    IF s = <<>> THEN 0
    ELSE 10 * DigitsValue(SubSeq(s, 1, Len(s) - 1)) + DecValue(s[Len(s)])

\* int(x): [exc |-> "TypeError"], [exc |-> "ValueError"] or [exc |-> "", v |-> n].
IntOf(x) ==
    IF x.t = "int" THEN [exc |-> "", v |-> x.v]
    ELSE IF x.t = "none" THEN [exc |-> "TypeError"]
    ELSE LET signed == Len(x.s) > 0 /\ x.s[1] \in {"-", "+"}
             digits == IF signed THEN Tail(x.s) ELSE x.s
         IN  IF digits = <<>> \/ \E i \in 1..Len(digits) : DecValue(digits[i]) < 0
             THEN [exc |-> "ValueError"]
             ELSE [exc |-> "",
                   v |-> IF signed /\ x.s[1] = "-" THEN 0 - DigitsValue(digits)
                         ELSE DigitsValue(digits)]

(***************************************************************************)
(* The public methods up to their call of _send_command.  Each yields      *)
(*   [kind |-> "invalid", message |-> m]   a validation failure returned,  *)
(*   [kind |-> "raise", exc |-> e]         an exception left to the caller,*)
(*   [kind |-> "send", params |-> p]       _send_command(p) is called.     *)
(***************************************************************************)
Invalid(m) == [kind |-> "invalid", message |-> m]
Raises(e) == [kind |-> "raise", exc |-> e]
Send(p) == [kind |-> "send", params |-> p]

MsgNoIP == "No Hyperion IP configured"
MsgBrightness == "Brightness must be between 0 and 255"
MsgPower == "Power state must be 0 (Off), 1 (On), or 2 (Toggle)"
MsgHex == "Hex color must be 6 characters long (without #)"
MsgHexDigit == "invalid literal for int() with base 16"
MsgEffectIndex == "Effect index must be a valid integer"
MsgPrimaryHex == "Primary color hex error"
MsgSecondaryHex == "Secondary color hex error"
MsgPrimaryWhite == "Primary white value must be between 0 and 255"
MsgSecondaryWhite == "Secondary white value must be between 0 and 255"
MsgSpeed == "Speed must be between 0 and 255"
MsgIntensity == "Intensity must be between 0 and 255"
MsgPalette == "Palette index must be between 0 and 46"
MsgPresetId == "Preset ID must be an integer"
MsgCannotConnect == "Cannot connect to Hyperion"
MsgParse == "Error parsing Hyperion response"
MsgNoInfoAfter == "Failed to get Hyperion serverinfo after command execution."
MsgSocket == "Timeout communicating with Hyperion"
MsgJsonDecode == "Expecting value: line 1 column 1 (char 0)"
MsgAttribute == "object has no attribute get"
MsgUnexpected == "Unexpected Hyperion adapter error"

\* str(e) of the ValueError _hex_to_rgb raises
HexErrorText(hex_color) ==
    IF Len(LStripHash(hex_color)) # 6 THEN MsgHex ELSE MsgHexDigit

InRange(x, lo, hi) == lo <= x /\ x <= hi

\* Lines 402-404
check_wled_status_facade == Send(None)

\* Variant: the lower bound is exclusive.
set_brightness_facade_Exclusive(a) ==
    IF a.value.t # "int" THEN Raises("TypeError")
    ELSE IF ~ InRange(a.value.v, 1, 255) THEN Invalid(MsgBrightness)
    ELSE Send([bri |-> a.value.v])

\* Lines 406-410: the comparison raises TypeError for a value that is no number.
set_brightness_facade(a) ==
    IF a.value.t # "int" THEN Raises("TypeError")
    ELSE IF ~ InRange(a.value.v, 0, 255) THEN Invalid(MsgBrightness)
    ELSE Send([bri |-> a.value.v])

\* Lines 412-418
set_power_facade(a) ==
    IF a.state \notin {0, 1, 2} THEN Invalid(MsgPower)
    ELSE IF a.state = 2 THEN Send([on |-> "t"])
    ELSE Send([on |-> IF a.state = 1 THEN "True" ELSE "False"])

\* Lines 429-437 and 467-476: the colour a hex string or r, g, b name, None
\* when the caller named none.
ColorOf(hex, r, g, b) ==
    IF ~ IsNone(hex) THEN Some(hex_to_rgb(Val(hex)))
    ELSE IF \E x \in {r, g, b} : ~ IsNone(x)
         THEN Some(<<OrZero(r), OrZero(g), OrZero(b)>>)
         ELSE None

\* Lines 427-444
set_color_facade(a) ==
    IF ~ IsNone(a.hex) /\ ~ HexValid(Val(a.hex))
    THEN Invalid(HexErrorText(Val(a.hex)))
    ELSE LET c == ColorOf(a.hex, a.r, a.g, a.b)
             rgb_to_set == IF IsNone(c) THEN <<0, 0, 0>> ELSE Val(c)
         IN  Send([seg |-> << [col |-> <<rgb_to_set>>] >>])

\* The optional key k with value Val(x) when x is not None.
Opt(k, x) == IF IsNone(x) THEN <<>> ELSE k :> Val(x)

\* Lines 446-531, in the order the checks are made.
set_effect_facade(a) ==
    LET idx == IntOf(a.effect_index)
        primary == ColorOf(a.hex, a.r, a.g, a.b)
        secondary == ColorOf(a.hex2, a.r2, a.g2, a.b2)
        colors_for_effect_param ==
            (IF IsNone(primary) THEN <<>> ELSE <<Val(primary)>>)
            \o (IF IsNone(secondary) THEN <<>> ELSE <<Val(secondary)>>)
        seg_payload ==
            ("fx" :> idx.v)
            @@ (IF colors_for_effect_param = <<>> THEN <<>>
                ELSE "col" :> colors_for_effect_param)
            @@ Opt("sx", a.speed) @@ Opt("ix", a.intensity) @@ Opt("pal", a.palette)
        final_state_params ==
            ("seg" :> <<seg_payload>>)
            @@ Opt("bri", a.brightness)
            @@ (IF a.transition # 0 THEN "transition" :> a.transition ELSE <<>>)
    IN  IF idx.exc # "" THEN Invalid(MsgEffectIndex)
        ELSE IF ~ IsNone(a.hex) /\ ~ HexValid(Val(a.hex))
             THEN Invalid(MsgPrimaryHex \o ": " \o HexErrorText(Val(a.hex)))
        ELSE IF ~ IsNone(primary) /\ ~ IsNone(a.w) /\ ~ InRange(Val(a.w), 0, 255)
             THEN Invalid(MsgPrimaryWhite)
        ELSE IF ~ IsNone(a.hex2) /\ ~ HexValid(Val(a.hex2))
             THEN Invalid(MsgSecondaryHex \o ": " \o HexErrorText(Val(a.hex2)))
        ELSE IF ~ IsNone(secondary) /\ ~ IsNone(a.w2) /\ ~ InRange(Val(a.w2), 0, 255)
             THEN Invalid(MsgSecondaryWhite)
        ELSE IF ~ IsNone(a.speed) /\ ~ InRange(Val(a.speed), 0, 255)
             THEN Invalid(MsgSpeed)
        ELSE IF ~ IsNone(a.intensity) /\ ~ InRange(Val(a.intensity), 0, 255)
             THEN Invalid(MsgIntensity)
        ELSE IF ~ IsNone(a.palette) /\ ~ InRange(Val(a.palette), 0, 46)
             THEN Invalid(MsgPalette)
        ELSE IF ~ IsNone(a.brightness) /\ ~ InRange(Val(a.brightness), 0, 255)
             THEN Invalid(MsgBrightness)
        ELSE Send(final_state_params)

\* Lines 533-542: only ValueError is caught.
set_preset_facade(a) ==
    LET pid == IntOf(a.preset_id)
    IN  IF pid.exc = "ValueError" THEN Invalid(MsgPresetId)
        ELSE IF pid.exc = "TypeError" THEN Raises("TypeError")
        ELSE Send([ps |-> pid.v])

Facade(o, a) ==
    CASE o = "check_wled_status" -> check_wled_status_facade
      [] o = "set_brightness" -> set_brightness_facade(a)
      [] o = "set_power" -> set_power_facade(a)
      [] o = "set_color" -> set_color_facade(a)
      [] o = "set_effect" -> set_effect_facade(a)
      [] o = "set_preset" -> set_preset_facade(a)

(***************************************************************************)
(* The transport, _send_hyperion_command (lines 110-172).  A round trip    *)
(* ends in one of:                                                         *)
(*   ok       a JSON object with success true                              *)
(*   nack     a JSON object whose success is false or missing              *)
(*   connerr  socket.timeout, ConnectionRefusedError or another OSError    *)
(*   badjson  no line received, an empty line, or text that is not JSON    *)
(*   notobj   JSON that is not an object (.get raises AttributeError)      *)
(***************************************************************************)
Outcomes == {"ok", "nack", "connerr", "badjson", "notobj"}

\* The exception a round trip raises, "" when it returns the response.
ExcOf(outcome) ==
    CASE outcome \in {"ok", "nack"} -> ""
      [] outcome = "connerr" -> "ConnectionError"
      [] outcome = "badjson" -> "JSONDecodeError"
      [] outcome = "notobj" -> "AttributeError"

Truthy(opt) == ~ IsNone(opt) /\ Val(opt) # ""

\* Variant: the status queries go out without the token.
WithTokenAndTan_CommandsOnly(command_obj, token) ==
    command_obj
    @@ (IF Truthy(token) /\ command_obj.command # "serverinfo"
        THEN "token" :> Val(token) ELSE <<>>)
    @@ ("tan" :> "epoch_ms % 100000")

\* Lines 116-123: the request as sent, with the token (when one is set) and
\* the clock-derived tan.
WithTokenAndTan(command_obj, token) ==
    command_obj
    @@ (IF Truthy(token) THEN "token" :> Val(token) ELSE <<>>)
    @@ ("tan" :> "epoch_ms % 100000")

\* One round trip as the log keeps it.
RoundTrip(command_obj, token, outcome) ==
    [request |-> WithTokenAndTan(command_obj, token), outcome |-> outcome]

ServerInfoCommand == [command |-> "serverinfo"]

\* Lines 209-212 and 233-236
ComponentStateCommand(state) ==
    [command |-> "componentstate",
     componentstate |-> [component |-> HYPERION_COMPONENT_LEDDEVICE, state |-> state]]

\* Lines 242-245
AdjustmentCommand(bri) ==
    [command |-> "adjustment",
     adjustment |-> [brightness |-> HyperionBrightnessTarget(bri)]]

\* max(0.1, raw / 128.0), in units of 1/1280 (lines 263 and 266)
EffectScale(raw) == Max(128, 10 * raw)

\* c[:3] for every colour (line 272)
RgbOnly(col) == [i \in 1..Len(col) |-> Take(col[i], 3)]

\* Lines 257-283
HyperionEffectArgs(segment_data) ==
    (IF "sx" \in DOMAIN segment_data
     THEN "speed" :> EffectScale(segment_data.sx) ELSE <<>>)
    @@ (IF "ix" \in DOMAIN segment_data
        THEN "intensity" :> EffectScale(segment_data.ix) ELSE <<>>)
    @@ (IF "col" \in DOMAIN segment_data /\ segment_data.col # <<>>
        THEN (IF Len(segment_data.col) = 1
              THEN "color" :> RgbOnly(segment_data.col)[1] ELSE <<>>)
             @@ ("colors" :> RgbOnly(segment_data.col))
        ELSE <<>>)
    @@ (IF "pal" \in DOMAIN segment_data
        THEN "palette" :> segment_data.pal ELSE <<>>)

\* Lines 285-290
EffectCommand(name, effect_args, origin) ==
    [command |-> "effect", effect |-> [name |-> name, args |-> effect_args],
     priority |-> HYPERION_DEFAULT_PRIORITY, origin |-> origin]

\* Lines 298-303
ColorCommand(rgb, origin) ==
    [command |-> "color", color |-> rgb,
     priority |-> HYPERION_DEFAULT_PRIORITY, origin |-> origin]

\* Variant: the colour branch is tried before the effect branch.
SegmentCommand_ColorFirst(segment_data) ==
    IF "col" \in DOMAIN segment_data /\ segment_data.col # <<>>
    THEN Some(ColorCommand(Take(segment_data.col[1], 3), HYPERION_ORIGIN_NAME))
    ELSE IF "fx" \in DOMAIN segment_data /\ ~ IsNone(EffectMapGet(segment_data.fx))
         THEN Some(EffectCommand(Val(EffectMapGet(segment_data.fx)),
                                 HyperionEffectArgs(segment_data),
                                 HYPERION_ORIGIN_NAME))
         ELSE None

\* Variant: an unmapped effect index falls through to the colour branch.
SegmentCommand_FallThrough(segment_data) ==
    IF "fx" \in DOMAIN segment_data /\ ~ IsNone(EffectMapGet(segment_data.fx))
    THEN Some(EffectCommand(Val(EffectMapGet(segment_data.fx)),
                            HyperionEffectArgs(segment_data),
                            HYPERION_ORIGIN_NAME))
    ELSE IF "col" \in DOMAIN segment_data /\ segment_data.col # <<>>
         THEN Some(ColorCommand(Take(segment_data.col[1], 3), HYPERION_ORIGIN_NAME))
         ELSE None

\* Lines 253-303: the command of the first segment, None when the effect
\* index is unmapped or the segment names neither effect nor colour.
SegmentCommand(segment_data) ==
    IF "fx" \in DOMAIN segment_data
    THEN LET hyperion_effect_name == EffectMapGet(segment_data.fx)
         IN  IF IsNone(hyperion_effect_name) THEN None
             ELSE Some(EffectCommand(Val(hyperion_effect_name),
                                     HyperionEffectArgs(segment_data),
                                     HYPERION_ORIGIN_NAME))
    ELSE IF "col" \in DOMAIN segment_data /\ segment_data.col # <<>>
         THEN Some(ColorCommand(Take(segment_data.col[1], 3), HYPERION_ORIGIN_NAME))
         ELSE None

\* Variant: the origin is not cut.
PresetOrigin_Whole(wled_preset_id) ==
    HYPERION_ORIGIN_NAME \o <<"_", "P">> \o IntStr(wled_preset_id)

\* f"{self.origin}_P{wled_preset_id}"[:20], line 313
PresetOrigin(wled_preset_id) ==
    Take(HYPERION_ORIGIN_NAME \o <<"_", "P">> \o IntStr(wled_preset_id), 20)

\* Lines 306-327: None when the preset id is unmapped.
PresetCommand(map, wled_preset_id) ==
    LET hyperion_preset_action == PresetMapGet(map, wled_preset_id)
    IN  IF IsNone(hyperion_preset_action) THEN None
        ELSE LET action == Val(hyperion_preset_action)
             IN  IF action.type = "effect"
                 THEN Some(EffectCommand(action.name, <<>>, PresetOrigin(wled_preset_id)))
                 ELSE Some(ColorCommand(action.rgb, PresetOrigin(wled_preset_id)))

(***************************************************************************)
(* _get_hyperion_serverinfo, lines 174-181: the info of a successful       *)
(* response, None for every failure.  resp_info is the "info" member of    *)
(* the response (None when the response has none).                         *)
(***************************************************************************)
get_hyperion_serverinfo(outcome, resp_info) ==
    IF outcome = "ok" THEN resp_info ELSE None

(***************************************************************************)
(* What _send_command returns.                                             *)
(***************************************************************************)
\* Variant: is_on is what the pre-read found.
SuccessStatus_PreState(map, info) ==
    [connected |-> TRUE,
     is_on |-> is_hyperion_leddevice_on_before,
     preset_id |-> ActiveWledPresetId(map, info),
     playlist_id |-> -1,
     brightness |-> WledBrightness(info),
     message |-> IF LedDeviceEnabled(info) THEN "Hyperion is ON" ELSE "Hyperion is OFF"]

\* Lines 381-388
SuccessStatus(map, info) ==
    [connected |-> TRUE,
     is_on |-> LedDeviceEnabled(info),
     preset_id |-> ActiveWledPresetId(map, info),
     playlist_id |-> -1,
     brightness |-> WledBrightness(info),
     message |-> IF LedDeviceEnabled(info) THEN "Hyperion is ON" ELSE "Hyperion is OFF"]

FailureStatus(message) == [connected |-> FALSE, message |-> message]

\* Lines 390-399, in the order of the except clauses, for exception exc with
\* str(exc) = text.  JSONDecodeError is a ValueError, so the first clause
\* takes it and the third is never reached.
CannotConnect(text) == MsgCannotConnect \o ": " \o text

ExceptStatus(exc, text) ==
    IF exc \in {"ValueError", "JSONDecodeError"} THEN FailureStatus(text)
    ELSE IF exc \in {"ConnectionError", "ConnectionRefusedError"}
         THEN FailureStatus(CannotConnect(text))
    ELSE IF exc = "JSONDecodeError" THEN FailureStatus(MsgParse \o ": " \o text)
    ELSE FailureStatus(MsgUnexpected \o ": " \o text)

\* str(e) of what a failed round trip raises
ExcText(outcome) ==
    CASE outcome = "connerr" -> MsgSocket
      [] outcome = "badjson" -> MsgJsonDecode
      [] outcome = "notobj" -> MsgAttribute

(***************************************************************************)
(* The stages of _send_command after the pre-read, in code order, and      *)
(* whether a call with these parameters makes the stage's round trip.      *)
(***************************************************************************)
Stages == <<"auto_power_on", "toggle_refetch", "power", "brightness",
            "segment", "preset", "post_read">>

\* Line 202
IsPowerControlCommand(sp) == "on" \in DOMAIN sp
\* Line 203
IsVisualEffectCommand(sp) == \E k \in {"bri", "seg", "ps"} : k \in DOMAIN sp

\* Variant: only a segment counts as visual.
NeedsAutoPowerOn_SegOnly(sp, on_before) ==
    /\ ~ on_before
    /\ DOMAIN sp # {}
    /\ "seg" \in DOMAIN sp
    /\ ~ IsPowerControlCommand(sp)

\* Variant: every call with parameters powers the device on first.
NeedsAutoPowerOn_Always(sp, on_before) == DOMAIN sp # {}

\* Variant: the power-on is sent only when a command will follow it.
NeedsAutoPowerOn_IfTranslates(sp, on_before) ==
    /\ ~ on_before
    /\ DOMAIN sp # {}
    /\ \/ "bri" \in DOMAIN sp
       \/ "seg" \in DOMAIN sp /\ sp.seg # <<>> /\ ~ IsNone(SegmentCommand(sp.seg[1]))
       \/ "ps" \in DOMAIN sp /\ ~ IsNone(PresetCommand(preset_map, sp.ps))
    /\ ~ IsPowerControlCommand(sp)

\* Lines 206-207
NeedsAutoPowerOn(sp, on_before) ==
    /\ ~ on_before
    /\ DOMAIN sp # {}
    /\ IsVisualEffectCommand(sp)
    /\ ~ IsPowerControlCommand(sp)

\* Variant: every toggle reads the state again.
StageApplies_AlwaysRefetch(stage, sp, on_before, info_before, map) ==
    CASE stage = "auto_power_on" -> NeedsAutoPowerOn(sp, on_before)
      [] stage = "toggle_refetch" -> "on" \in DOMAIN sp /\ sp.on = "t"
      [] stage = "power" -> "on" \in DOMAIN sp
      [] stage = "brightness" -> "bri" \in DOMAIN sp
      [] stage = "segment" ->
            /\ "seg" \in DOMAIN sp
            /\ sp.seg # <<>>
            /\ ~ IsNone(SegmentCommand(sp.seg[1]))
      [] stage = "preset" ->
            "ps" \in DOMAIN sp /\ ~ IsNone(PresetCommand(map, sp.ps))
      [] stage = "post_read" -> TRUE

StageApplies(stage, sp, on_before, info_before, map) ==
    CASE stage = "auto_power_on" -> NeedsAutoPowerOn(sp, on_before)
      [] stage = "toggle_refetch" ->
            "on" \in DOMAIN sp /\ sp.on = "t" /\ IsNone(info_before)
      [] stage = "power" -> "on" \in DOMAIN sp
      [] stage = "brightness" -> "bri" \in DOMAIN sp
      [] stage = "segment" ->
            /\ "seg" \in DOMAIN sp
            /\ sp.seg # <<>>
            /\ ~ IsNone(SegmentCommand(sp.seg[1]))
      [] stage = "preset" ->
            "ps" \in DOMAIN sp /\ ~ IsNone(PresetCommand(map, sp.ps))
      [] stage = "post_read" -> TRUE

\* Variant: a stage that applies is entered again after its round trip.
NextStage_Repeat(i, sp, on_before, info_before, map) ==
    LET later == {j \in Max(i, 1)..Len(Stages) :
                    StageApplies(Stages[j], sp, on_before, info_before, map)}
    IN  Stages[CHOOSE j \in later : \A k \in later : j <= k]

\* The first stage after position i that applies.
NextStage(i, sp, on_before, info_before, map) ==
    LET later == {j \in (i + 1)..Len(Stages) :
                    StageApplies(Stages[j], sp, on_before, info_before, map)}
    IN  Stages[CHOOSE j \in later : \A k \in later : j <= k]

(***************************************************************************)
(* State.                                                                  *)
(***************************************************************************)
Pending == [pending |-> TRUE]
NoArgs == <<>>

(***************************************************************************)
(* _send_hyperion_command below the round trip: the socket s of line 127,  *)
(* the receive loop of lines 135-142 and the parse of lines 144-152.  Text *)
(* is a sequence of the symbols of Symbols; the JSON texts the peer may    *)
(* send are an object with success true, one with success false, one       *)
(* without the member, and a value that is no object.                      *)
(***************************************************************************)
NL == "\n"
Symbols == {"{", "T", "F", "}", "A", " ", NL}

\* No round trip in progress: no socket, nothing sent, nothing received.
NoSocket ==
    [tpc |-> "idle", open |-> 0, opened |-> 0, sent |-> 0, chunks |-> 0,
     buffer |-> <<>>, response_data |-> <<>>, outcome |-> ""]

\* _send_hyperion_command has returned or raised: its locals are gone; a
\* socket it left open stays open.
Released(s) == [NoSocket EXCEPT !.open = s.open]

\* "\n" in buffer, line 140
HasNewline(text) == \E i \in 1..Len(text) : text[i] = NL

\* buffer.split("\n", 1)[0], line 141
FirstLine(text) ==
    LET at == CHOOSE i \in 1..Len(text) :
                  text[i] = NL /\ \A j \in 1..(i - 1) : text[j] # NL
    IN  SubSeq(text, 1, at - 1)

\* str.strip(), lines 144 and 149
Strip(text) ==
    LET solid == {i \in 1..Len(text) : text[i] \notin {" ", NL}}
    IN  IF solid = {} THEN <<>>
        ELSE SubSeq(text, CHOOSE i \in solid : \A j \in solid : i <= j,
                          CHOOSE i \in solid : \A j \in solid : i >= j)

\* Lines 144-159 on response_data: what the caller of the round trip gets.
ParseOutcome(response_data) ==
    LET text == Strip(response_data)
    IN  CASE text = <<>> -> "badjson"
          [] text = <<"{", "T", "}">> -> "ok"
          [] text \in {<<"{", "F", "}">>, <<"{", "}">>} -> "nack"
          [] text = <<"A">> -> "notobj"
          [] OTHER -> "badjson"

\* Variant: the socket is closed on the return path only.
ExitWith_CloseOnReturn(s, outcome) ==
    [s EXCEPT !.tpc = "done", !.outcome = outcome,
              !.open = IF outcome \in {"ok", "nack"} THEN @ - 1 ELSE @]

\* Leaving the with block of line 127, by return or by exception: s.close().
ExitWith(s, outcome) ==
    [s EXCEPT !.tpc = "done", !.outcome = outcome, !.open = @ - 1]

\* No call made yet, or the configuration changed since the last one.
Cleared ==
    /\ op = "none"
    /\ args = NoArgs
    /\ state_params = None
    /\ pc = "idle"
    /\ server_info_before = None
    /\ is_hyperion_leddevice_on_before = FALSE
    /\ current_info_for_toggle = None
    /\ current_led_state_for_toggle = FALSE
    /\ final_hyperion_info = None
    /\ log = <<>>
    /\ status = Pending
    /\ sock = NoSocket

\* __init__, lines 93-98
InitWith(addresses, maps) ==
    /\ ip_address \in addresses
    /\ port = HYPERION_DEFAULT_PORT
    /\ auth_token = None
    /\ preset_map \in maps
    /\ Cleared

Between == pc \in {"idle", "done"}

\* The record of the last call is dropped when the configuration changes.
ClearCall ==
    /\ op' = "none"
    /\ args' = NoArgs
    /\ state_params' = None
    /\ pc' = "idle"
    /\ server_info_before' = None
    /\ is_hyperion_leddevice_on_before' = FALSE
    /\ current_info_for_toggle' = None
    /\ current_led_state_for_toggle' = FALSE
    /\ final_hyperion_info' = None
    /\ log' = <<>>
    /\ status' = Pending
    /\ sock' = Released(sock)

\* set_ip, lines 100-104
set_ip(new_ip, new_port) ==
    /\ Between
    /\ ip_address' = new_ip
    /\ port' = IF IsNone(new_port) THEN port ELSE Val(new_port)
    /\ ClearCall
    /\ UNCHANGED <<auth_token, preset_map>>

\* set_auth_token, lines 106-108
set_auth_token(token) ==
    /\ Between
    /\ auth_token' = Some(token)
    /\ ClearCall
    /\ UNCHANGED <<ip_address, port, preset_map>>

(***************************************************************************)
(* A public method is called: its own checks, then _send_command up to     *)
(* the pre-read (lines 188-190).                                           *)
(***************************************************************************)
\* Variant: only None counts as unconfigured.
TargetConfigured_NotNone(ip) == ~ IsNone(ip)

\* if not self.ip_address, line 189
TargetConfigured(ip) == Truthy(ip)

Enter(o, a) ==
    LET f == Facade(o, a)
    IN  /\ pc = "idle"
        /\ op' = o
        /\ args' = a
        /\ log' = <<>>
        /\ server_info_before' = None
        /\ is_hyperion_leddevice_on_before' = FALSE
        /\ current_info_for_toggle' = None
        /\ current_led_state_for_toggle' = FALSE
        /\ final_hyperion_info' = None
        /\ sock' = Released(sock)
        /\ state_params' = IF f.kind = "send" THEN f.params ELSE None
        /\ IF f.kind = "invalid"
           THEN status' = FailureStatus(f.message) /\ pc' = "done"
           ELSE IF f.kind = "raise"
           THEN status' = [raised |-> f.exc] /\ pc' = "done"
           ELSE IF ~ TargetConfigured(ip_address)
           THEN status' = ExceptStatus("ValueError", MsgNoIP) /\ pc' = "done"
           ELSE status' = Pending /\ pc' = "pre_read"
        /\ UNCHANGED <<ip_address, port, auth_token, preset_map>>

\* The caller takes the status; the controller keeps nothing of the call.
Return ==
    /\ pc = "done"
    /\ ClearCall
    /\ UNCHANGED <<ip_address, port, auth_token, preset_map>>

check_wled_status ==
    /\ pc = "idle"
    /\ Enter("check_wled_status", NoArgs)

set_brightness(a) ==
    /\ pc = "idle"
    /\ Enter("set_brightness", a)

set_power(a) ==
    /\ pc = "idle"
    /\ Enter("set_power", a)

set_color(a) ==
    /\ pc = "idle"
    /\ Enter("set_color", a)

set_effect(a) ==
    /\ pc = "idle"
    /\ Enter("set_effect", a)

set_preset(a) ==
    /\ pc = "idle"
    /\ Enter("set_preset", a)

(***************************************************************************)
(* The steps of _send_command, one per round trip.                         *)
(***************************************************************************)
Config == <<ip_address, port, auth_token, preset_map>>
Call == <<op, args, state_params>>

\* if info: for comp ...: if name == LEDDEVICE: x = enabled (lines 196-200,
\* 226-230); prior is x's value when the loop assigns nothing.
LedStateFrom(info, prior) ==
    IF IsNone(info) \/ Val(info) = <<>> THEN prior
    ELSE IF \E i \in 1..Len(Get(Val(info), "components", <<>>)) :
              Get(Get(Val(info), "components", <<>>)[i], "name", "")
                 = HYPERION_COMPONENT_LEDDEVICE
         THEN LedDeviceEnabled(Val(info))
         ELSE prior

\* Variant: a pre-read that gives nothing ends the call.
PreRead_Abort(outcome, resp_info) ==
    LET info == get_hyperion_serverinfo(outcome, resp_info)
        on_before == LedStateFrom(info, FALSE)
    IN  /\ pc = "pre_read"
        /\ log' = Append(log, RoundTrip(ServerInfoCommand, auth_token, outcome))
        /\ sock' = Released(sock)
        /\ server_info_before' = info
        /\ is_hyperion_leddevice_on_before' = on_before
        /\ current_led_state_for_toggle' = on_before
        /\ pc' = IF IsNone(info) THEN "done"
                 ELSE NextStage(0, state_params, on_before, info, preset_map)
        /\ UNCHANGED <<Config, Call, current_info_for_toggle, final_hyperion_info,
                       status>>

\* Lines 194-207: the pre-read and the classification of the call.
PreRead(outcome, resp_info) ==
    LET info == get_hyperion_serverinfo(outcome, resp_info)
        on_before == LedStateFrom(info, FALSE)
    IN  /\ pc = "pre_read"
        /\ log' = Append(log, RoundTrip(ServerInfoCommand, auth_token, outcome))
        /\ sock' = Released(sock)
        /\ server_info_before' = info
        /\ is_hyperion_leddevice_on_before' = on_before
        /\ current_led_state_for_toggle' = on_before
        /\ pc' = NextStage(0, state_params, on_before, info, preset_map)
        /\ UNCHANGED <<Config, Call, current_info_for_toggle, final_hyperion_info,
                       status>>

\* Variant: an answer with success=false ends the call like an exception.
CommandStep_NackAborts(i, command_obj, outcome) ==
    /\ pc = Stages[i]
    /\ log' = Append(log, RoundTrip(command_obj, auth_token, outcome))
    /\ sock' = Released(sock)
    /\ IF outcome # "ok"
       THEN /\ status' = ExceptStatus("ConnectionError", MsgNoInfoAfter)
            /\ pc' = "done"
       ELSE /\ status' = status
            /\ pc' = NextStage(i, state_params, is_hyperion_leddevice_on_before,
                               server_info_before, preset_map)
    /\ UNCHANGED <<Config, Call, server_info_before,
                   is_hyperion_leddevice_on_before, current_info_for_toggle,
                   current_led_state_for_toggle, final_hyperion_info>>

\* Variant: an exception of a command round trip is swallowed.
CommandStep_Continue(i, command_obj, outcome) ==
    /\ pc = Stages[i]
    /\ log' = Append(log, RoundTrip(command_obj, auth_token, outcome))
    /\ sock' = Released(sock)
    /\ status' = status
    /\ pc' = NextStage(i, state_params, is_hyperion_leddevice_on_before,
                       server_info_before, preset_map)
    /\ UNCHANGED <<Config, Call, server_info_before,
                   is_hyperion_leddevice_on_before, current_info_for_toggle,
                   current_led_state_for_toggle, final_hyperion_info>>

\* A command round trip of stage number i: an exception ends the call in the
\* except clauses, a response (whatever its success flag) lets it go on.
CommandStep(i, command_obj, outcome) ==
    /\ pc = Stages[i]
    /\ log' = Append(log, RoundTrip(command_obj, auth_token, outcome))
    /\ sock' = Released(sock)
    /\ IF ExcOf(outcome) # ""
       THEN /\ status' = ExceptStatus(ExcOf(outcome), ExcText(outcome))
            /\ pc' = "done"
       ELSE /\ status' = status
            /\ pc' = NextStage(i, state_params, is_hyperion_leddevice_on_before,
                               server_info_before, preset_map)
    /\ UNCHANGED <<Config, Call, server_info_before,
                   is_hyperion_leddevice_on_before, current_info_for_toggle,
                   current_led_state_for_toggle, final_hyperion_info>>

\* Lines 206-213
AutoPowerOn(outcome) ==
    /\ pc = "auto_power_on"
    /\ CommandStep(1, ComponentStateCommand(TRUE), outcome)

\* Lines 224-230: the second read of a toggle whose pre-read gave nothing.
ToggleRefetch(outcome, resp_info) ==
    LET info == get_hyperion_serverinfo(outcome, resp_info)
    IN  /\ pc = "toggle_refetch"
        /\ log' = Append(log, RoundTrip(ServerInfoCommand, auth_token, outcome))
        /\ sock' = Released(sock)
        /\ current_info_for_toggle' = info
        /\ current_led_state_for_toggle' =
              LedStateFrom(info, current_led_state_for_toggle)
        /\ pc' = NextStage(2, state_params, is_hyperion_leddevice_on_before,
                           server_info_before, preset_map)
        /\ UNCHANGED <<Config, Call, server_info_before,
                       is_hyperion_leddevice_on_before, final_hyperion_info, status>>

\* Variant: a toggle repeats the observed state.
TargetLedDeviceState_NoNegation(sp, led_state_for_toggle) ==
    IF sp.on = "t" THEN led_state_for_toggle ELSE sp.on = "True"

\* Lines 219-231
TargetLedDeviceState(sp, led_state_for_toggle) ==
    IF sp.on = "t" THEN ~ led_state_for_toggle ELSE sp.on = "True"

\* Lines 218-236
Power(outcome) ==
    /\ pc = "power"
    /\ CommandStep(3, ComponentStateCommand(
                         TargetLedDeviceState(state_params, current_led_state_for_toggle)),
                   outcome)

\* Lines 239-245
Brightness(outcome) ==
    /\ pc = "brightness"
    /\ CommandStep(4, AdjustmentCommand(state_params.bri), outcome)

\* Lines 248-303
Segment(outcome) ==
    /\ pc = "segment"
    /\ CommandStep(5, Val(SegmentCommand(state_params.seg[1])), outcome)

\* Lines 306-327
Preset(outcome) ==
    /\ pc = "preset"
    /\ CommandStep(6, Val(PresetCommand(preset_map, state_params.ps)), outcome)

\* Lines 334-399: the post-read and the status built from it.
PostRead(outcome, resp_info) ==
    LET info == get_hyperion_serverinfo(outcome, resp_info)
    IN  /\ pc = "post_read"
        /\ log' = Append(log, RoundTrip(ServerInfoCommand, auth_token, outcome))
        /\ sock' = Released(sock)
        /\ final_hyperion_info' = info
        /\ status' = IF IsNone(info)
                     THEN ExceptStatus("ConnectionError", MsgNoInfoAfter)
                     ELSE SuccessStatus(preset_map, Val(info))
        /\ pc' = "done"
        /\ UNCHANGED <<Config, Call, server_info_before,
                       is_hyperion_leddevice_on_before, current_info_for_toggle,
                       current_led_state_for_toggle>>

(***************************************************************************)
(* The steps of _send_hyperion_command within one round trip.  The call    *)
(* stands at the stage that makes the round trip until the result of the   *)
(* round trip is handed to it.                                             *)
(***************************************************************************)
MaxChunks == 2

LocalsOfSendCommand ==
    <<pc, server_info_before, is_hyperion_leddevice_on_before,
      current_info_for_toggle, current_led_state_for_toggle,
      final_hyperion_info, log, status>>

\* Lines 127-128: socket.socket(...) entered as s, s.settimeout(3)
TOpen ==
    /\ pc \notin {"idle", "done"}
    /\ sock.tpc = "idle"
    /\ sock' = [sock EXCEPT !.tpc = "created", !.open = @ + 1, !.opened = @ + 1]
    /\ UNCHANGED <<Config, Call, LocalsOfSendCommand>>

\* Line 129: s.connect; socket.timeout, ConnectionRefusedError and OSError
\* leave the with block and become the exceptions of lines 161-169.
TConnect(result) ==
    /\ sock.tpc = "created"
    /\ sock' = IF result = "ok" THEN [sock EXCEPT !.tpc = "connected"]
               ELSE ExitWith(sock, "connerr")
    /\ UNCHANGED <<Config, Call, LocalsOfSendCommand>>

\* Line 130: s.sendall(full_request)
TSend(result) ==
    /\ sock.tpc = "connected"
    /\ sock' = IF result = "ok" THEN [sock EXCEPT !.tpc = "sent", !.sent = @ + 1]
               ELSE ExitWith(sock, "connerr")
    /\ UNCHANGED <<Config, Call, LocalsOfSendCommand>>

\* Variant: when the peer closes, what the buffer holds is taken as the
\* response.
TRecv_UseBuffer(chunk) ==
    LET buffer == sock.buffer \o chunk
    IN  /\ sock.tpc = "sent"
        /\ sock' = IF chunk = <<>>
                   THEN [sock EXCEPT !.tpc = "received", !.chunks = @ + 1,
                                     !.response_data = sock.buffer]
                   ELSE IF HasNewline(buffer)
                   THEN [sock EXCEPT !.tpc = "received", !.chunks = @ + 1,
                                     !.buffer = buffer,
                                     !.response_data = FirstLine(buffer)]
                   ELSE [sock EXCEPT !.chunks = @ + 1, !.buffer = buffer]
        /\ UNCHANGED <<Config, Call, LocalsOfSendCommand>>

\* Lines 135-142: one pass of the receive loop. An empty chunk (the peer
\* closed) ends the loop with response_data still empty; a newline in the
\* buffer ends it with the first line.
TRecv(chunk) ==
    LET buffer == sock.buffer \o chunk
    IN  /\ sock.tpc = "sent"
        /\ sock' = IF chunk = <<>>
                   THEN [sock EXCEPT !.tpc = "received", !.chunks = @ + 1]
                   ELSE IF HasNewline(buffer)
                   THEN [sock EXCEPT !.tpc = "received", !.chunks = @ + 1,
                                     !.buffer = buffer,
                                     !.response_data = FirstLine(buffer)]
                   ELSE [sock EXCEPT !.chunks = @ + 1, !.buffer = buffer]
        /\ UNCHANGED <<Config, Call, LocalsOfSendCommand>>

\* Lines 135-142 past the chunks followed one by one: the peer sends one
\* more chunk of blanks before the 3 s of line 128 run out, so s.recv
\* returns, the buffer has no newline and the loop goes round again. A run
\* of blanks at the end of the buffer is kept as one blank, and the count
\* of chunks is kept as its parity.
TRecvMore ==
    /\ sock.tpc = "sent"
    /\ sock.chunks >= MaxChunks
    /\ sock' = [sock EXCEPT
                  !.chunks = IF @ = MaxChunks THEN MaxChunks + 1 ELSE MaxChunks,
                  !.buffer = IF @ # <<>> /\ @[Len(@)] = " " THEN @
                             ELSE Append(@, " ")]
    /\ UNCHANGED <<Config, Call, LocalsOfSendCommand>>

\* Line 136: s.recv raises socket.timeout or another OSError.
TRecvError ==
    /\ sock.tpc = "sent"
    /\ sock' = ExitWith(sock, "connerr")
    /\ UNCHANGED <<Config, Call, LocalsOfSendCommand>>

\* Lines 144-159: the parse, inside the with block, then the block's exit.
TParse ==
    /\ sock.tpc = "received"
    /\ sock' = ExitWith(sock, ParseOutcome(sock.response_data))
    /\ UNCHANGED <<Config, Call, LocalsOfSendCommand>>

(***************************************************************************)
(* Inputs: what callers pass and what the peer answers.                    *)
(***************************************************************************)
MaxOtherComponents == 1
MaxSkippedAdjustments == 1
MaxHiddenSources == 1

HexRed == <<"#", "F", "F", "0", "0", "0", "0">>
HexRedBare == <<"f", "f", "0", "0", "0", "0">>
HexShort == <<"#", "F", "0", "0">>
HexBadDigit == <<"#", "G", "G", "0", "0", "0", "0">>
HexOrange == <<"#", "f", "f", "a", "0", "0", "0">>
HexBlack == <<"#", "0", "0", "0", "0", "0", "0">>
HexGreen == <<"#", "0", "8", "f", "f", "0", "0">>

Addresses == {None, Some(""), Some("192.168.1.100")}
Ports == {None, Some(HYPERION_DEFAULT_PORT)}
Tokens == {"secret", ""}

BrightnessArgs ==
    {[value |-> PyInt(v)] : v \in {-1, 0, 128, 255, 256}} \cup {[value |-> PyNone]}

PowerArgs == {[state |-> s] : s \in 0..3}

ColorCall(hex, r, g, b, w) == [hex |-> hex, r |-> r, g |-> g, b |-> b, w |-> w]

ColorArgs ==
    { ColorCall(Some(HexRed), None, None, None, None),
      ColorCall(Some(HexRedBare), Some(1), Some(2), Some(3), Some(7)),
      ColorCall(Some(HexShort), None, None, None, None),
      ColorCall(Some(HexBadDigit), None, None, None, None),
      ColorCall(None, None, None, None, None),
      ColorCall(None, Some(255), None, None, None),
      ColorCall(None, Some(0), Some(255), Some(0), Some(7)) }

EffectDefaults ==
    [effect_index |-> PyInt(2), speed |-> None, intensity |-> None,
     brightness |-> None, palette |-> None,
     r |-> None, g |-> None, b |-> None, w |-> None, hex |-> None,
     r2 |-> None, g2 |-> None, b2 |-> None, w2 |-> None, hex2 |-> None,
     transition |-> 0]

\* One call per key of the effect map and per unmapped neighbour, no options.
PlainEffectArgs ==
    {[EffectDefaults EXCEPT !.effect_index = PyInt(i)] :
        i \in DOMAIN WLED_TO_HYPERION_EFFECT_MAP \cup {0, 1, 13, 185, -1}}

OptionEffectArgs ==
    { \* effect_loading, lines 554-561
      [EffectDefaults EXCEPT !.effect_index = PyInt(47), !.hex = Some(HexOrange),
                             !.hex2 = Some(HexBlack), !.palette = Some(0),
                             !.speed = Some(150), !.intensity = Some(150)],
      \* effect_connected, lines 575 and 580
      [EffectDefaults EXCEPT !.effect_index = PyInt(0), !.hex = Some(HexGreen),
                             !.brightness = Some(100)],
      [EffectDefaults EXCEPT !.effect_index = PyInt(0), !.brightness = Some(0)],
      [EffectDefaults EXCEPT !.effect_index = PyInt(0), !.r2 = Some(9),
                             !.hex = Some(HexRed)],
      [EffectDefaults EXCEPT !.speed = Some(0), !.brightness = Some(255)],
      [EffectDefaults EXCEPT !.effect_index = PyInt(7), !.r = Some(0), !.g = Some(0),
                             !.b = Some(0), !.w = Some(5)],
      [EffectDefaults EXCEPT !.transition = 5],
      [EffectDefaults EXCEPT !.effect_index = PyStr(<<"1", "2">>)],
      [EffectDefaults EXCEPT !.effect_index = PyStr(<<"x">>)],
      [EffectDefaults EXCEPT !.effect_index = PyNone],
      [EffectDefaults EXCEPT !.speed = Some(256)],
      [EffectDefaults EXCEPT !.intensity = Some(-1)],
      [EffectDefaults EXCEPT !.palette = Some(47)],
      [EffectDefaults EXCEPT !.palette = Some(46), !.intensity = Some(255)],
      [EffectDefaults EXCEPT !.brightness = Some(256)],
      [EffectDefaults EXCEPT !.hex = Some(HexShort)],
      [EffectDefaults EXCEPT !.hex2 = Some(HexBadDigit)],
      [EffectDefaults EXCEPT !.hex = Some(HexRed), !.w = Some(256)],
      [EffectDefaults EXCEPT !.w = Some(256)],
      [EffectDefaults EXCEPT !.g2 = Some(4), !.w2 = Some(-1)],
      [EffectDefaults EXCEPT !.w2 = Some(300)] }

EffectArgs == PlainEffectArgs \cup OptionEffectArgs

PresetArgs ==
    {[preset_id |-> x] :
        x \in {PyInt(1), PyInt(2), PyInt(3), PyInt(-1), PyNone,
               PyStr(<<"2">>), PyStr(<<"x">>)}}

\* k copies of x
RECURSIVE Rep(_, _)
Rep(x, k) == IF k = 0 THEN <<>> ELSE <<x>> \o Rep(x, k - 1)

OtherComponent == [name |-> "SMOOTHING", enabled |-> TRUE]
LedComponent(e) == [name |-> HYPERION_COMPONENT_LEDDEVICE, enabled |-> e]

\* Components lists: other components first, then the given tail.
ComponentListsOver(tails) ==
    {Rep(OtherComponent, k) \o tail : k \in 0..MaxOtherComponents, tail \in tails}

\* No LEDDEVICE entry, an enabled one, a disabled one.
PlainTails == {<<>>, <<LedComponent(TRUE)>>, <<LedComponent(FALSE)>>}

\* Also an entry without an enabled flag, and two entries.
AllTails ==
    PlainTails \cup {<<[name |-> HYPERION_COMPONENT_LEDDEVICE]>>,
                     <<LedComponent(FALSE), LedComponent(TRUE)>>}

AdjustmentLists ==
    {<<>>} \cup
    {Rep([id |-> "default"], k) \o <<[id |-> "default", brightness |-> b]>> :
        k \in 0..MaxSkippedAdjustments, b \in {-10, 0, 50, 100, 150}}

EffectSource(owner, visible) ==
    [componentId |-> "EFFECT", owner |-> owner, visible |-> visible, priority |-> 50]
ColorSource(rgb, visible) ==
    [componentId |-> "COLOR", owner |-> "LEDController", visible |-> visible,
     priority |-> 50, value |-> [RGB |-> rgb]]

VisibleSources ==
    { EffectSource("Preset01", TRUE), EffectSource("Preset02", TRUE),
      EffectSource("Breath", TRUE),
      ColorSource(<<76, 245, 245>>, TRUE), ColorSource(<<255, 0, 0>>, TRUE),
      ColorSource(<<76, 245>>, TRUE),
      [componentId |-> "COLOR", owner |-> "Preset01", visible |-> TRUE] }

HiddenSource == EffectSource("Preset01", FALSE)

\* Priorities lists: hidden sources first, then nothing, one visible source,
\* or a visible source followed by a visible Preset02 effect.
PriorityLists ==
    {Rep(HiddenSource, k) \o tail :
        k \in 0..MaxHiddenSources,
        tail \in {<<>>} \cup {<<v>> : v \in VisibleSources}
                 \cup {<<v, EffectSource("Preset02", TRUE)>> : v \in VisibleSources}}

Info(comps, adjs, prios) ==
    [components |-> comps, adjustment |-> adjs, priorities |-> prios]

\* What the pre-read may receive: only its components list is consulted.
PreInfos ==
    {None, Some(<<>>)}
    \cup {Some([components |-> c]) : c \in ComponentListsOver(PlainTails)}

\* What the post-read may receive.
PostInfos ==
    { None,
      Some(Info(<<LedComponent(TRUE)>>, <<>>, <<>>)),
      Some(Info(<<LedComponent(FALSE)>>, <<[brightness |-> 50]>>,
                <<EffectSource("Preset01", TRUE)>>)),
      Some(Info(<<LedComponent(TRUE)>>, <<[brightness |-> 100]>>,
                <<ColorSource(<<255, 0, 0>>, TRUE)>>)),
      Some(Info(<<OtherComponent, LedComponent(TRUE)>>, <<[brightness |-> 0]>>,
                <<HiddenSource, EffectSource("Preset02", TRUE)>>)) }

\* The snapshots the status is derived from, each part varying while the
\* others are fixed.
StatusInfos ==
    {None, Some(<<>>)}
    \cup {Some(Info(c, <<>>, <<>>)) : c \in ComponentListsOver(AllTails)}
    \cup {Some(Info(<<LedComponent(TRUE)>>, a, <<>>)) : a \in AdjustmentLists}
    \cup {Some(Info(<<LedComponent(TRUE)>>, <<>>, p)) : p \in PriorityLists}

\* The response member "info" matters only to a round trip that ends ok.
Answers(infos) ==
    {[outcome |-> "ok", info |-> i] : i \in infos}
    \cup {[outcome |-> o, info |-> None] : o \in Outcomes \ {"ok"}}

(***************************************************************************)
(* The specification: the controller as shipped, any caller, any peer.     *)
(***************************************************************************)
Init == InitWith({None, Some("192.168.1.100")}, {WLED_TO_HYPERION_PRESET_MAP})

Next ==
    \/ \E ip \in Addresses, p \in Ports : set_ip(ip, p)
    \/ \E t \in Tokens : set_auth_token(t)
    \/ Return
    \/ check_wled_status
    \/ \E a \in BrightnessArgs : set_brightness(a)
    \/ \E a \in PowerArgs : set_power(a)
    \/ \E a \in ColorArgs : set_color(a)
    \/ \E a \in EffectArgs : set_effect(a)
    \/ \E a \in PresetArgs : set_preset(a)
    \/ \E x \in Answers(PreInfos) : PreRead(x.outcome, x.info)
    \/ \E o \in Outcomes : AutoPowerOn(o)
    \/ \E x \in Answers(PreInfos) : ToggleRefetch(x.outcome, x.info)
    \/ \E o \in Outcomes : Power(o)
    \/ \E o \in Outcomes : Brightness(o)
    \/ \E o \in Outcomes : Segment(o)
    \/ \E o \in Outcomes : Preset(o)
    \/ \E x \in Answers(PostInfos) : PostRead(x.outcome, x.info)

Spec == Init /\ [][Next]_vars

(***************************************************************************)
(* The status derivation on its own: either preset map, a configured       *)
(* target, the calls that apply a preset or only ask for the status, and   *)
(* every snapshot of StatusInfos at the post-read.                         *)
(***************************************************************************)
StatusPreInfos == {None, Some([components |-> <<LedComponent(TRUE)>>])}

InitStatus == InitWith({Some("192.168.1.100")}, PresetMaps)

NextStatus ==
    \/ Return
    \/ check_wled_status
    \/ \E a \in PresetArgs : set_preset(a)
    \/ \E x \in Answers(StatusPreInfos) : PreRead(x.outcome, x.info)
    \/ \E o \in Outcomes : AutoPowerOn(o)
    \/ \E o \in Outcomes : Preset(o)
    \/ \E x \in Answers(StatusInfos) : PostRead(x.outcome, x.info)

SpecStatus == InitStatus /\ [][NextStatus]_vars

\* The same with the map of shared effects among the preset maps.
InitAnyMap == InitWith({Some("192.168.1.100")}, AnyPresetMaps)

SpecAnyMap == InitAnyMap /\ [][NextStatus]_vars

\* The same for calls of every kind that show something: a preset, an
\* effect with a brightness, or none (the status query).
InitAnyCall ==
    InitWith({Some("192.168.1.100")}, AnyPresetMaps \cup {PresetMapWithLargeIds})

NextAnyCall ==
    \/ NextStatus
    \/ \E n \in {12345, 1234567} : set_preset([preset_id |-> PyInt(n)])
    \/ set_effect([EffectDefaults EXCEPT !.brightness = Some(100)])
    \/ set_color(ColorCall(Some(HexRed), None, None, None, None))
    \/ \E o \in Outcomes : Brightness(o)
    \/ \E o \in Outcomes : Segment(o)

SpecAnyCall == InitAnyCall /\ [][NextAnyCall]_vars

(***************************************************************************)
(* The brightness round trip: set_brightness with every value of 0..255    *)
(* against a peer that acknowledges the adjustment and reports, at the     *)
(* post-read, the brightness it was last sent.                             *)
(***************************************************************************)
AllBrightnessArgs == {[value |-> PyInt(b)] : b \in 0..255}

\* The brightness of the last adjustment command of the call.
LastAdjustment ==
    LET sent == {i \in 1..Len(log) : log[i].request.command = "adjustment"}
    IN  log[CHOOSE i \in sent : \A j \in sent : i >= j].request.adjustment.brightness

PostReadApplied ==
    /\ \E i \in 1..Len(log) : log[i].request.command = "adjustment"
    /\ PostRead("ok", Some(Info(<<LedComponent(TRUE)>>,
                                <<[brightness |-> LastAdjustment]>>, <<>>)))

InitBrightness == InitWith({Some("192.168.1.100")}, {WLED_TO_HYPERION_PRESET_MAP})

NextBrightness ==
    \/ Return
    \/ \E a \in AllBrightnessArgs : set_brightness(a)
    \/ PreRead("ok", Some([components |-> <<LedComponent(TRUE)>>]))
    \/ \E o \in {"ok", "nack"} : Brightness(o)
    \/ PostReadApplied

SpecBrightness == InitBrightness /\ [][NextBrightness]_vars

(***************************************************************************)
(* The transport below the round trips: a configured target, calls of      *)
(* each kind, and a peer that accepts or refuses the connection, stalls,   *)
(* closes early, or answers in chunks of its choice.                       *)
(***************************************************************************)
ConnectResults == {"ok", "timeout", "refused", "oserror"}
SendResults == {"ok", "timeout", "oserror"}

Chunks ==
    { <<>>,
      <<"{", "T", "}", NL>>, <<"{", "F", "}", NL>>, <<"{", "}", NL>>,
      <<"A", NL>>, <<"T", NL>>, <<NL>>,
      <<"{", "T">>, <<"}", NL>>, <<" ">>, <<"{", "T", "}">>,
      <<" ", "{", "T", "}", " ", NL, "{", "F", "}", NL>> }

\* The chunks a peer may send after n chunks: the loop is followed for at
\* most MaxChunks chunks that leave it running.
ChunksAfter(n) ==
    IF n < MaxChunks THEN Chunks
    ELSE {c \in Chunks : c = <<>> \/ HasNewline(c)}

TransportInfos == {Some([components |-> <<LedComponent(e)>>]) : e \in BOOLEAN}

InitTransport == InitWith({Some("192.168.1.100")}, {WLED_TO_HYPERION_PRESET_MAP})

NextTransport ==
    \/ Return
    \/ check_wled_status
    \/ \E st \in {0, 2} : set_power([state |-> st])
    \/ set_brightness([value |-> PyInt(128)])
    \/ TOpen
    \/ \E r \in ConnectResults : TConnect(r)
    \/ \E r \in SendResults : TSend(r)
    \/ \E c \in ChunksAfter(sock.chunks) : TRecv(c)
    \/ TRecvError
    \/ TParse
    \/ \E i \in TransportInfos : sock.tpc = "done" /\ PreRead(sock.outcome, i)
    \/ sock.tpc = "done" /\ AutoPowerOn(sock.outcome)
    \/ \E i \in TransportInfos : sock.tpc = "done" /\ ToggleRefetch(sock.outcome, i)
    \/ sock.tpc = "done" /\ Power(sock.outcome)
    \/ sock.tpc = "done" /\ Brightness(sock.outcome)
    \/ \E i \in TransportInfos : sock.tpc = "done" /\ PostRead(sock.outcome, i)

SpecTransport == InitTransport /\ [][NextTransport]_vars

(***************************************************************************)
(* Progress of the round trip.  The controller takes its own steps, and    *)
(* every socket operation returns or raises within the timeout of line     *)
(* 128, so each step of a round trip that can be taken is taken; which     *)
(* result a socket operation has is the peer's choice.                     *)
(***************************************************************************)
RecvPass ==
    \/ \E c \in ChunksAfter(sock.chunks) : TRecv(c)
    \/ TRecvMore
    \/ TRecvError

HandOver ==
    \/ \E i \in TransportInfos : sock.tpc = "done" /\ PreRead(sock.outcome, i)
    \/ \E i \in TransportInfos : sock.tpc = "done" /\ PostRead(sock.outcome, i)

NextTransportLive ==
    \/ Return
    \/ check_wled_status
    \/ TOpen
    \/ \E r \in ConnectResults : TConnect(r)
    \/ \E r \in SendResults : TSend(r)
    \/ RecvPass
    \/ TParse
    \/ HandOver

SpecTransportLive ==
    /\ InitTransport
    /\ [][NextTransportLive]_vars
    /\ WF_vars(TOpen)
    /\ WF_vars(\E r \in ConnectResults : TConnect(r))
    /\ WF_vars(\E r \in SendResults : TSend(r))
    /\ WF_vars(RecvPass)
    /\ WF_vars(TParse)
    /\ WF_vars(HandOver)

(***************************************************************************)
(* Reading a call off the log of its round trips.                          *)
(***************************************************************************)
CommandsOf(kind) == {i \in 1..Len(log) : log[i].request.command = kind}

PowerCommands(state) ==
    {i \in CommandsOf("componentstate") : log[i].request.componentstate.state = state}

\* The call has parameters, so it passed the checks of its public method.
Accepted == op # "none" /\ ~ IsNone(state_params)

\* What a snapshot says of LEDDEVICE: enabled only if its first entry of
\* that name carries a true enabled flag.
ReportsEnabled(info) ==
    LET comps == IF "components" \in DOMAIN info THEN info.components ELSE <<>>
    IN  \E i \in 1..Len(comps) :
            /\ comps[i].name = "LEDDEVICE"
            /\ "enabled" \in DOMAIN comps[i]
            /\ comps[i].enabled
            /\ \A j \in 1..(i - 1) : comps[j].name # "LEDDEVICE"

PreReadReported == Len(log) >= 1 /\ ~ IsNone(server_info_before)

\* A command round trip raised, which ends the call before its post-read.
CommandRaised ==
    \E i \in 1..Len(log) :
        log[i].request.command # "serverinfo" /\ ExcOf(log[i].outcome) # ""

\* The call ran up to its post-read, or through it.
PostReadDone ==
    pc = "done" /\ Len(log) >= 2 /\ log[Len(log)].request.command = "serverinfo"
      /\ ~ CommandRaised

\* C1: a call that specifies brightness, a segment or a preset and no power,
\* whose pre-read reports LEDDEVICE disabled or absent, sends componentstate
\* state=true as its second round trip, right after the pre-read and before
\* every other command: nothing else can be the second entry of its log, and
\* the call sends nothing else until that entry is there.
C1_AutoPowerOnFirst ==
    ( /\ Accepted
      /\ \E k \in {"bri", "seg", "ps"} : k \in DOMAIN state_params
      /\ "on" \notin DOMAIN state_params
      /\ PreReadReported
      /\ ~ ReportsEnabled(Val(server_info_before)) )
    => /\ log[1].request.command = "serverinfo"
       /\ Len(log) = 1 => pc = "auto_power_on"
       /\ Len(log) >= 2 =>
            /\ log[2].request.command = "componentstate"
            /\ log[2].request.componentstate =
                 [component |-> "LEDDEVICE", state |-> TRUE]
            /\ \A i \in 3..Len(log) : log[i].request.command # "componentstate"

\* set_color on a disabled device: power-on second, the colour command third.
C1_Witness ==
    /\ op = "set_color"
    /\ PreReadReported
    /\ ~ ReportsEnabled(Val(server_info_before))
    /\ "components" \in DOMAIN Val(server_info_before)
    /\ Len(log) >= 3
    /\ log[2].request.command = "componentstate"
    /\ log[3].request.command = "color"

\* C2: no call that specifies power, and no call whose pre-read reports
\* LEDDEVICE enabled, sends the automatic power-on; set_power(off) never
\* sends componentstate state=true, and once it has passed its power step
\* it has sent exactly one componentstate command, with state=false.
C2_NoAutoPowerOn ==
    /\ (Accepted /\ "on" \in DOMAIN state_params) =>
          /\ pc # "auto_power_on"
          /\ Cardinality(CommandsOf("componentstate")) <= 1
          /\ \A i \in CommandsOf("componentstate") :
                \A j \in 2..(i - 1) : log[j].request.command = "serverinfo"
    /\ ( /\ Accepted
         /\ "on" \notin DOMAIN state_params
         /\ PreReadReported
         /\ ReportsEnabled(Val(server_info_before)) ) =>
          /\ pc # "auto_power_on"
          /\ CommandsOf("componentstate") = {}
    /\ (op = "set_power" /\ args.state = 0) =>
          /\ PowerCommands(TRUE) = {}
          /\ (Len(log) >= 1 /\ pc \in {"post_read", "done"}) =>
                /\ Cardinality(PowerCommands(FALSE)) = 1
                /\ log[2].request.componentstate =
                     [component |-> "LEDDEVICE", state |-> FALSE]

\* set_power(off) completed on a device the pre-read reported disabled.
C2_Witness ==
    /\ op = "set_power"
    /\ args.state = 0
    /\ pc = "done"
    /\ PreReadReported
    /\ ~ ReportsEnabled(Val(server_info_before))
    /\ Len(log) = 3
    /\ PowerCommands(FALSE) = {2}
    /\ status.connected

\* The enablement a toggle starts from: the pre-read's when it answered, else
\* the re-fetched one, else off.
ToggleObserved ==
    IF ~ IsNone(server_info_before) THEN ReportsEnabled(Val(server_info_before))
    ELSE IF ~ IsNone(current_info_for_toggle)
         THEN ReportsEnabled(Val(current_info_for_toggle))
         ELSE FALSE

\* C3: set_power(toggle), once past its power step, has sent exactly one
\* componentstate command, whose state is the negation of the enablement the
\* pre-read observed; a failed pre-read is followed by exactly one more
\* serverinfo read before that command, and the command negates what that
\* read observed, or is state=true when it failed too.
C3_ToggleNegates ==
    ( /\ op = "set_power"
      /\ args.state = 2
      /\ Len(log) >= 1
      /\ pc \in {"post_read", "done"} )
    => LET reads == IF IsNone(server_info_before) THEN 2 ELSE 1
       IN  /\ Cardinality(CommandsOf("componentstate")) = 1
           /\ CommandsOf("componentstate") = {reads + 1}
           /\ \A i \in 1..reads : log[i].request.command = "serverinfo"
           /\ log[reads + 1].request.componentstate.state = ~ ToggleObserved
           /\ (IsNone(server_info_before) /\ log[2].outcome # "ok")
                 => log[3].request.componentstate.state = TRUE
           /\ ~ IsNone(server_info_before) => IsNone(current_info_for_toggle)

\* A toggle whose pre-read failed and whose second read found the device on.
C3_Witness ==
    /\ op = "set_power"
    /\ args.state = 2
    /\ pc = "done"
    /\ IsNone(server_info_before)
    /\ ~ IsNone(current_info_for_toggle)
    /\ ReportsEnabled(Val(current_info_for_toggle))
    /\ PowerCommands(FALSE) = {3}

\* The effect index of an accepted set_effect call.
EffectIndex == state_params.seg[1].fx

\* C4: set_effect with an index that is a key of the effect map and valid
\* options never sends a colour command, sends no effect command under
\* another name than the mapped one, never sends two, and has sent exactly
\* one when it arrives at its post-read.
C4_MappedEffect ==
    ( /\ op = "set_effect"
      /\ Accepted
      /\ EffectIndex \in DOMAIN WLED_TO_HYPERION_EFFECT_MAP )
    => /\ CommandsOf("color") = {}
       /\ Cardinality(CommandsOf("effect")) <= 1
       /\ \A i \in CommandsOf("effect") :
             log[i].request.effect.name = WLED_TO_HYPERION_EFFECT_MAP[EffectIndex]
       /\ (pc = "post_read" \/ PostReadDone) =>
             Cardinality(CommandsOf("effect")) = 1

\* effect_loading's call: index 47 with two colours, speed and intensity.
C4_Witness ==
    /\ op = "set_effect"
    /\ Accepted
    /\ EffectIndex = 47
    /\ "col" \in DOMAIN state_params.seg[1]
    /\ PostReadDone
    /\ status.connected
    /\ \E i \in CommandsOf("effect") : log[i].request.effect.name = "Knight rider"

\* C5: set_effect with an index that is no key of the effect map sends no
\* effect and no colour command, whatever colours it was given, raises
\* nothing, and (unless a power-on or brightness round trip of its own
\* raised) ends with the post-read and the status derived from that read.
C5_UnmappedEffect ==
    ( /\ op = "set_effect"
      /\ Accepted
      /\ EffectIndex \notin DOMAIN WLED_TO_HYPERION_EFFECT_MAP )
    => /\ CommandsOf("effect") = {}
       /\ CommandsOf("color") = {}
       /\ pc # "segment"
       /\ "raised" \notin DOMAIN status
       /\ (pc = "done" /\ Len(log) >= 1 /\ ~ CommandRaised) =>
             /\ PostReadDone
             /\ Cardinality(CommandsOf("serverinfo")) = 2
             /\ status.connected = ~ IsNone(final_hyperion_info)
             /\ status.connected =>
                   /\ status.is_on = ReportsEnabled(Val(final_hyperion_info))
                   /\ status.playlist_id = -1

\* effect_connected's call: index 0 with a colour and a brightness, on a
\* device reported disabled.
C5_Witness ==
    /\ op = "set_effect"
    /\ Accepted
    /\ EffectIndex = 0
    /\ "col" \in DOMAIN state_params.seg[1]
    /\ PostReadDone
    /\ Len(log) = 4
    /\ log[2].request.command = "componentstate"
    /\ log[3].request.command = "adjustment"
    /\ status.connected

\* The sources a snapshot flags visible, by position in its priorities list.
VisibleAt(info) ==
    LET prios == IF "priorities" \in DOMAIN info THEN info.priorities ELSE <<>>
    IN  {i \in 1..Len(prios) : "visible" \in DOMAIN prios[i] /\ prios[i].visible}

\* The snapshot's first visible source is the one the action commands.
CommandedSourceVisible(action, info) ==
    \E i \in VisibleAt(info) :
        LET source == info.priorities[i]
        IN  /\ \A j \in VisibleAt(info) : i <= j
            /\ \/ /\ action.type = "effect"
                  /\ source.componentId = "EFFECT"
                  /\ source.owner = action.name
               \/ /\ action.type = "color"
                  /\ source.componentId = "COLOR"
                  /\ "value" \in DOMAIN source
                  /\ source.value.RGB = action.rgb

\* The request the action's command carries, apart from its origin.
CommandOfAction(action, request) ==
    \/ /\ action.type = "effect"
       /\ request.command = "effect"
       /\ request.effect.name = action.name
    \/ /\ action.type = "color"
       /\ request.command = "color"
       /\ request.color = action.rgb

\* C6: for every id of the preset map, when set_preset(id) has sent the
\* command of that id's action and the post-read snapshot shows the commanded
\* source as the visible one (an EFFECT source owned by the preset's effect
\* name, or a COLOR source whose RGB is the preset's rgb), the status
\* returned carries preset_id = id.
C6_PresetRoundTrip ==
    \A k \in 1..Len(preset_map) :
        ( /\ op = "set_preset"
          /\ Accepted
          /\ state_params.ps = preset_map[k][1]
          /\ pc = "done"
          /\ \E i \in 1..Len(log) : CommandOfAction(preset_map[k][2], log[i].request)
          /\ ~ IsNone(final_hyperion_info)
          /\ CommandedSourceVisible(preset_map[k][2], Val(final_hyperion_info)) )
        => /\ status.connected
           /\ status.preset_id = preset_map[k][1]

\* The colour preset 1 applied and found visible behind a hidden source.
C6_Witness ==
    /\ op = "set_preset"
    /\ Accepted
    /\ state_params.ps = 1
    /\ preset_map = PresetMapWithColor
    /\ pc = "done"
    /\ \E i \in 1..Len(log) : log[i].request.command = "color"
    /\ ~ IsNone(final_hyperion_info)
    /\ CommandedSourceVisible(preset_map[1][2], Val(final_hyperion_info))
    /\ Len(Val(final_hyperion_info).priorities) = 2
    /\ status.preset_id = 1

\* C7: in every successful status preset_id is -1 when the post-read
\* snapshot flags no source visible, and otherwise is decided by the first
\* visible source alone: -1 when no entry of the preset map matches that
\* source, else the id of the first entry that matches it.
C7_FirstVisibleFirstMatch ==
    (pc = "done" /\ "connected" \in DOMAIN status /\ status.connected)
    => LET info == Val(final_hyperion_info)
           vis == VisibleAt(info)
       IN  /\ vis = {} => status.preset_id = -1
           /\ vis # {} =>
                LET first == CHOOSE i \in vis : \A j \in vis : i <= j
                    matching == {k \in 1..Len(preset_map) :
                                   PresetMatches(preset_map[k][2],
                                                 info.priorities[first])}
                IN  /\ matching = {} => status.preset_id = -1
                    /\ \A k \in matching :
                          (\A m \in matching : k <= m) =>
                             status.preset_id = preset_map[k][1]

\* A hidden Preset01 source before a visible Preset02 one, under the map in
\* which ids 2 and 3 both name Preset02.
C7_Witness ==
    /\ pc = "done"
    /\ "connected" \in DOMAIN status
    /\ status.connected
    /\ preset_map = PresetMapWithSharedEffect
    /\ VisibleAt(Val(final_hyperion_info)) = {2}
    /\ Val(final_hyperion_info).priorities[1].owner = "Preset01"
    /\ Val(final_hyperion_info).priorities[2].owner = "Preset02"
    /\ status.preset_id = 2

\* C8: set_brightness(v) with an integer v outside 0..255 ends at once with
\* connected=false and no round trip; with v inside 0..255 it is accepted
\* with v as its brightness, is never answered with the range message, and
\* with a target configured goes on to the pre-read.
C8_BrightnessRange ==
    (op = "set_brightness" /\ args.value.t = "int")
    => LET v == args.value.v
       IN  /\ (v < 0 \/ v > 255) =>
                /\ pc = "done"
                /\ log = <<>>
                /\ status.connected = FALSE
           /\ (0 <= v /\ v <= 255) =>
                /\ state_params = [bri |-> v]
                /\ pc = "done" => status.message # MsgBrightness
                /\ Truthy(ip_address) =>
                      \/ pc = "pre_read"
                      \/ Len(log) >= 1 /\ log[1].request.command = "serverinfo"

\* set_brightness(256) refused although a target is configured.
C8_Witness ==
    /\ op = "set_brightness"
    /\ args = [value |-> PyInt(256)]
    /\ Truthy(ip_address)
    /\ pc = "done"
    /\ log = <<>>
    /\ status = [connected |-> FALSE,
                 message |-> "Brightness must be between 0 and 255"]

\* The call's arguments pass the checks of its public method.
ArgumentsValid == op # "none" /\ Facade(op, args).kind = "send"

\* C9: while no target address is configured no call makes a round trip,
\* and every public operation called with valid arguments returns
\* connected=false with the message 'No Hyperion IP configured'; with an
\* address configured such a call starts with the pre-read.
C9_NoTarget ==
    /\ ~ Truthy(ip_address) =>
          /\ log = <<>>
          /\ pc \in {"idle", "done"}
          /\ (pc = "done" /\ ArgumentsValid) =>
                status = [connected |-> FALSE,
                          message |-> "No Hyperion IP configured"]
    /\ (Truthy(ip_address) /\ ArgumentsValid) =>
          \/ pc = "pre_read" /\ log = <<>>
          \/ Len(log) >= 1 /\ log[1].request.command = "serverinfo"

\* set_effect with a mapped index answered without a target.
C9_Witness ==
    /\ ~ Truthy(ip_address)
    /\ op = "set_effect"
    /\ ArgumentsValid
    /\ pc = "done"
    /\ log = <<>>
    /\ status.message = "No Hyperion IP configured"

\* C10: set_color(hex="#FF0000") with a target set, a pre-read reporting
\* LEDDEVICE disabled and no round trip raising makes exactly the round trips
\* serverinfo, componentstate state=true, color [255,0,0], serverinfo; when
\* the post-read shows the power-on applied the status has connected=true
\* and is_on=true.
C10_EndToEnd ==
    ( /\ op = "set_color"
      /\ args.hex = Some(<<"#", "F", "F", "0", "0", "0", "0">>)
      /\ PreReadReported
      /\ ~ ReportsEnabled(Val(server_info_before))
      /\ PostReadDone )
    => /\ Len(log) = 4
       /\ log[1].request.command = "serverinfo"
       /\ log[2].request.command = "componentstate"
       /\ log[2].request.componentstate = [component |-> "LEDDEVICE", state |-> TRUE]
       /\ log[3].request.command = "color"
       /\ log[3].request.color = <<255, 0, 0>>
       /\ log[4].request.command = "serverinfo"
       /\ ( /\ ~ IsNone(final_hyperion_info)
            /\ ReportsEnabled(Val(final_hyperion_info)) )
          => /\ status.connected
             /\ status.is_on

\* Every round trip answered with success, the post-read showing the device
\* enabled and the red colour visible.
C10_Witness ==
    /\ op = "set_color"
    /\ args.hex = Some(<<"#", "F", "F", "0", "0", "0", "0">>)
    /\ PreReadReported
    /\ "components" \in DOMAIN Val(server_info_before)
    /\ ~ ReportsEnabled(Val(server_info_before))
    /\ PostReadDone
    /\ \A i \in 1..Len(log) : log[i].outcome = "ok"
    /\ ~ IsNone(final_hyperion_info)
    /\ ReportsEnabled(Val(final_hyperion_info))
    /\ CommandedSourceVisible(ColorAction(<<255, 0, 0>>), Val(final_hyperion_info))
    /\ status.connected
    /\ status.is_on

\* The six fields of the normalized status.
StatusFields ==
    {"connected", "is_on", "preset_id", "playlist_id", "brightness", "message"}

\* C11: every status a public operation returns, on success and on every
\* failure path, has the six fields connected, is_on, preset_id, playlist_id,
\* brightness and message, with playlist_id = -1.
C11_UniformShape ==
    pc = "done" =>
        /\ DOMAIN status = StatusFields
        /\ status.playlist_id = -1

\* C12: no public operation raises to its caller, whatever the arguments:
\* every call ends with a status that carries connected and a message.
C12_NeverRaises ==
    pc = "done" =>
        /\ "raised" \notin DOMAIN status
        /\ {"connected", "message"} \subseteq DOMAIN status

\* An optional argument that was given and lies outside lo..hi.
OutOfRange(x, lo, hi) == ~ IsNone(x) /\ (Val(x) < lo \/ Val(x) > hi)

\* The ranges of set_effect's speed, intensity, palette and brightness.
EffectOptionOutOfRange ==
    \/ OutOfRange(args.speed, 0, 255)
    \/ OutOfRange(args.intensity, 0, 255)
    \/ OutOfRange(args.palette, 0, 46)
    \/ OutOfRange(args.brightness, 0, 255)

\* C13: set_effect with speed or intensity outside 0..255, palette outside
\* 0..46, brightness outside 0..255, or a white channel w or w2 outside
\* 0..255 (with or without a colour beside it) returns connected=false and
\* makes no round trip.
C13_EachOptionValidated ==
    ( /\ op = "set_effect"
      /\ \/ EffectOptionOutOfRange
         \/ OutOfRange(args.w, 0, 255)
         \/ OutOfRange(args.w2, 0, 255) )
    => /\ pc = "done"
       /\ log = <<>>
       /\ "connected" \in DOMAIN status
       /\ status.connected = FALSE

\* |x|
Abs(x) == IF x < 0 THEN -x ELSE x

\* C14: for every integer b of 0..255 the brightness sent downstream,
\* down(b), is the integer nearest to b*100/255 and lies in 0..100, and the
\* brightness reported back for a snapshot carrying down(b), up(down(b)), is
\* the integer nearest to down(b)*255/100 and differs from b by at most 1;
\* down(0) = 0 and up(0) = 0, down(255) = 100 and up(100) = 255.
C14_BrightnessRoundTrip ==
    (op = "set_brightness" /\ Accepted) =>
        LET b == args.value.v
        IN  /\ \A i \in CommandsOf("adjustment") :
                  LET d == log[i].request.adjustment.brightness
                  IN  /\ d \in 0..100
                      /\ 2 * Abs(255 * d - 100 * b) <= 255
                      /\ b = 0 => d = 0
                      /\ b = 255 => d = 100
            /\ ( /\ pc = "done"
                 /\ status.connected
                 /\ Val(final_hyperion_info).adjustment
                       = <<[brightness |-> LastAdjustment]>> )
               => LET d == LastAdjustment
                      u == status.brightness
                  IN  /\ 2 * Abs(100 * u - 255 * d) <= 100
                      /\ Abs(u - b) <= 1
                      /\ d = 0 => u = 0
                      /\ d = 100 => u = 255

\* set_brightness(254): 100 goes down, 255 comes back.
C14_Witness ==
    /\ op = "set_brightness"
    /\ Accepted
    /\ args.value.v = 254
    /\ pc = "done"
    /\ status.connected
    /\ LastAdjustment = 100
    /\ status.brightness = 255

\* C15: the brightness of every successful status lies in 0..255, whatever
\* the snapshot, also when its adjustment brightness is outside 0..100.
C15_BrightnessInRange ==
    (pc = "done" /\ "connected" \in DOMAIN status /\ status.connected)
    => status.brightness \in 0..255

\* C16 as claimed: no call makes more than two serverinfo round trips, also
\* not set_power(toggle) after a failed pre-read.
C16_AtMostTwoReads == Cardinality(CommandsOf("serverinfo")) <= 2

\* The call is a toggle whose pre-read gave no snapshot.
ToggleAfterFailedPreRead ==
    /\ op = "set_power"
    /\ args.state = 2
    /\ Len(log) >= 1
    /\ IsNone(server_info_before)

\* C16, amended: a call makes at most two serverinfo round trips, the
\* pre-read first and the post-read last, except set_power(toggle) after a
\* failed pre-read, which reads once more right after the pre-read and so
\* makes at most three.
C16_ReadsBounded ==
    LET reads == CommandsOf("serverinfo")
    IN  /\ Cardinality(reads) <= 3
        /\ ~ ToggleAfterFailedPreRead =>
              /\ Cardinality(reads) <= 2
              /\ reads \subseteq {1, Len(log)}
        /\ ToggleAfterFailedPreRead =>
              /\ reads \subseteq {1, 2, Len(log)}
              /\ Len(log) >= 2 => log[2].request.command = "serverinfo"
              /\ Len(log) >= 3 => log[3].request.command = "componentstate"
        /\ (pc = "done" /\ Len(log) >= 1 /\ ~ CommandRaised) =>
              /\ Len(log) \in reads
              /\ Cardinality(reads) >= 2

\* A toggle that read three times: pre-read, second read, post-read.
C16_Witness ==
    /\ ToggleAfterFailedPreRead
    /\ pc = "done"
    /\ Len(log) = 4
    /\ CommandsOf("serverinfo") = {1, 2, 4}
    /\ status.connected

\* Round trip i ended in a transport or protocol failure.
Failed(i) == log[i].outcome \in {"connerr", "badjson", "notobj"}

\* C17 as claimed: a failed round trip at any stage, the pre-read included,
\* is the last of its call, and the call returns connected=false.
C17_AnyFailureAborts ==
    \A i \in 1..Len(log) :
        Failed(i) => /\ i = Len(log)
                     /\ pc = "done"
                     /\ status.connected = FALSE

\* C17, amended: a failed auto power-on or command send is the last round
\* trip of its call, which returns connected=false; a failed post-read gives
\* connected=false; a failed serverinfo that is not the last round trip is
\* the pre-read, or the second read of a toggle whose pre-read gave nothing,
\* and the call went on after it.
C17_CommandFailureAborts ==
    \A i \in 1..Len(log) :
        Failed(i) =>
            /\ log[i].request.command # "serverinfo" =>
                  /\ i = Len(log)
                  /\ pc = "done"
                  /\ status.connected = FALSE
            /\ (log[i].request.command = "serverinfo" /\ i = Len(log)) =>
                  /\ pc # "done" => i \in {1, 2}
                  /\ pc = "done" => (i >= 2 /\ status.connected = FALSE)
            /\ (log[i].request.command = "serverinfo" /\ i < Len(log)) =>
                  \/ i = 1
                  \/ i = 2 /\ ToggleAfterFailedPreRead

\* set_effect with a brightness on a disabled device: the power-on is
\* acknowledged, the adjustment fails, the effect is never sent.
C17_Witness ==
    /\ op = "set_effect"
    /\ Accepted
    /\ EffectIndex \in DOMAIN WLED_TO_HYPERION_EFFECT_MAP
    /\ pc = "done"
    /\ Len(log) = 3
    /\ log[2].request.command = "componentstate"
    /\ log[3].request.command = "adjustment"
    /\ Failed(3)
    /\ ~ Failed(1)
    /\ status.connected = FALSE

\* The pre-read of the call failed: a transport error, a malformed reply or
\* an answer with success=false.
PreReadFailed == Len(log) >= 1 /\ log[1].outcome # "ok"

\* C18: a call whose pre-read failed holds no snapshot and takes the device
\* for off; the failed pre-read never ends the call; a visual call without a
\* power parameter sends the power-on as its second round trip; and a call
\* that ends without a command having raised ends with the post-read.
C18_PreReadTolerated ==
    PreReadFailed =>
        /\ log[1].request.command = "serverinfo"
        /\ IsNone(server_info_before)
        /\ is_hyperion_leddevice_on_before = FALSE
        /\ Len(log) = 1 => pc \notin {"idle", "done"}
        /\ (IsVisualEffectCommand(state_params) /\ "on" \notin DOMAIN state_params) =>
              /\ Len(log) = 1 => pc = "auto_power_on"
              /\ Len(log) >= 2 =>
                    /\ log[2].request.command = "componentstate"
                    /\ log[2].request.componentstate.state = TRUE
        /\ (pc = "done" /\ ~ CommandRaised) =>
              /\ Len(log) >= 2
              /\ log[Len(log)].request.command = "serverinfo"

\* set_brightness whose pre-read could not connect: power-on, adjustment and
\* an answered post-read follow, and the call reports connected.
C18_Witness ==
    /\ op = "set_brightness"
    /\ PreReadFailed
    /\ log[1].outcome = "connerr"
    /\ pc = "done"
    /\ Len(log) = 4
    /\ log[2].request.command = "componentstate"
    /\ log[3].request.command = "adjustment"
    /\ log[4].request.command = "serverinfo"
    /\ "connected" \in DOMAIN status
    /\ status.connected

\* The command round trips answered with success=false.
Nacked ==
    {i \in 1..Len(log) :
        log[i].request.command # "serverinfo" /\ log[i].outcome = "nack"}

\* Position of a command in the order of lines 206-327: power, brightness,
\* then the colour or effect of a segment or preset.
CommandRank(i) ==
    CASE log[i].request.command = "componentstate" -> 1
      [] log[i].request.command = "adjustment" -> 2
      [] OTHER -> 3

\* C19: a command answered with success=false is never the end of its call;
\* when such a call ends without a command having raised, its last round
\* trip is the post-read, every command its parameters stand for was sent,
\* and the commands were sent in the order power, brightness, colour/effect.
C19_NackContinues ==
    Nacked # {} =>
        /\ Len(log) \in Nacked => pc \notin {"idle", "done"}
        /\ \A i, j \in 1..Len(log) :
              ( /\ i < j
                /\ log[i].request.command # "serverinfo"
                /\ log[j].request.command # "serverinfo" )
              => CommandRank(i) < CommandRank(j)
        /\ (pc = "done" /\ ~ CommandRaised) =>
              /\ log[Len(log)].request.command = "serverinfo"
              /\ "on" \in DOMAIN state_params =>
                    CommandsOf("componentstate") # {}
              /\ "bri" \in DOMAIN state_params =>
                    \E i \in CommandsOf("adjustment") :
                        log[i].request.adjustment.brightness =
                           HyperionBrightnessTarget(state_params.bri)
              /\ ( /\ "seg" \in DOMAIN state_params
                   /\ state_params.seg # <<>>
                   /\ ~ IsNone(SegmentCommand(state_params.seg[1])) ) =>
                    CommandsOf(Val(SegmentCommand(state_params.seg[1])).command) # {}
              /\ ( /\ "ps" \in DOMAIN state_params
                   /\ ~ IsNone(PresetCommand(preset_map, state_params.ps)) ) =>
                    CommandsOf(Val(PresetCommand(preset_map, state_params.ps)).command) # {}

\* set_effect with a brightness on a disabled device: the power-on and the
\* adjustment are both refused, the effect is still sent and the post-read
\* still made.
C19_Witness ==
    /\ op = "set_effect"
    /\ pc = "done"
    /\ Len(log) = 5
    /\ {2, 3} \subseteq Nacked
    /\ log[2].request.command = "componentstate"
    /\ log[3].request.command = "adjustment"
    /\ log[4].request.command = "effect"
    /\ log[5].request.command = "serverinfo"
    /\ "connected" \in DOMAIN status
    /\ status.connected

\* C20: never more than one socket is open; a socket is open exactly from
\* its creation to the exit of the with block, whatever the exit (return,
\* timeout, refusal, OS error, malformed reply); a round trip creates one
\* socket and sends at most one request on it, exactly one when it got as
\* far as receiving; no socket is open, and no round trip is in progress,
\* when no call is running or the call has returned.
C20_SocketLifecycle ==
    /\ sock.open \in {0, 1}
    /\ sock.open = 1 <=> sock.tpc \in {"created", "connected", "sent", "received"}
    /\ sock.opened = IF sock.tpc = "idle" THEN 0 ELSE 1
    /\ sock.sent <= 1
    /\ sock.tpc \in {"sent", "received"} => sock.sent = 1
    /\ (sock.tpc = "done" /\ sock.outcome # "connerr") => sock.sent = 1
    /\ sock.tpc = "done" => sock.open = 0
    /\ pc \in {"idle", "done"} => sock = NoSocket

\* The second round trip of a call whose first was ended by a connection
\* error: the peer sent text without a newline and closed, the parse
\* raised, and the socket is closed.
C20_Witness ==
    /\ pc = "post_read"
    /\ Len(log) = 1
    /\ log[1].outcome = "connerr"
    /\ sock.tpc = "done"
    /\ sock.outcome = "badjson"
    /\ sock.buffer # <<>>
    /\ sock.response_data = <<>>
    /\ sock.open = 0

\* C21: every round trip that has begun comes to its end, with a response
\* or a failure, whatever the peer sends; and every call that has begun
\* returns.
C21_EveryRoundTripEnds ==
    /\ (sock.tpc = "created") ~> (sock.tpc = "done")
    /\ (pc = "pre_read") ~> (pc = "done")

\* Every command round trip of the call was acknowledged.
AllCommandsAcknowledged ==
    \A i \in 1..Len(log) :
        log[i].request.command # "serverinfo" => log[i].outcome = "ok"

\* The call made its post-read: the last round trip of a finished call in
\* which no command raised.
PostReadMade ==
    /\ pc = "done"
    /\ Len(log) >= 2
    /\ ~ CommandRaised
    /\ log[Len(log)].request.command = "serverinfo"

\* C22: a call whose post-read yields no info (any outcome but an accepted
\* answer, or an accepted answer without info) returns connected=false,
\* also when every command was acknowledged; a status with connected=true
\* comes only from a post-read that was answered with info, and its is_on
\* is the LEDDEVICE enablement of that snapshot, false when it has no such
\* component.
C22_PostReadDecides ==
    /\ (PostReadMade /\ IsNone(final_hyperion_info)) =>
          /\ DOMAIN status = {"connected", "message"}
          /\ status.connected = FALSE
    /\ (PostReadMade /\ log[Len(log)].outcome # "ok") => IsNone(final_hyperion_info)
    /\ (pc = "done" /\ "connected" \in DOMAIN status /\ status.connected) =>
          /\ PostReadMade
          /\ log[Len(log)].outcome = "ok"
          /\ ~ IsNone(final_hyperion_info)
          /\ status.is_on = ReportsEnabled(Val(final_hyperion_info))

\* set_power(off) on a device reported on: the command is acknowledged, the
\* post-read reports the device off, and so does the status.
C22_Witness ==
    /\ op = "set_power"
    /\ PostReadMade
    /\ AllCommandsAcknowledged
    /\ is_hyperion_leddevice_on_before
    /\ ~ IsNone(final_hyperion_info)
    /\ ~ ReportsEnabled(Val(final_hyperion_info))
    /\ "connected" \in DOMAIN status
    /\ status.connected
    /\ status.is_on = FALSE

\* The place of round trip i in the order pre-read, auto power-on, power,
\* brightness, effect or colour, preset command, post-read. A serverinfo
\* after the first has the place of the post-read.
Slot(i) ==
    LET c == log[i].request.command
    IN  CASE c = "serverinfo" /\ i = 1 -> 0
          [] c = "serverinfo" /\ i > 1 -> 7
          [] c = "componentstate" /\ "on" \notin DOMAIN state_params -> 1
          [] c = "componentstate" /\ "on" \in DOMAIN state_params -> 2
          [] c = "adjustment" -> 3
          [] c \in {"effect", "color"} /\ "ps" \notin DOMAIN state_params -> 4
          [] c \in {"effect", "color"} /\ "ps" \in DOMAIN state_params -> 5
          [] OTHER -> 8

\* C23 as claimed: the round trips of a call are in the order of the places
\* above, each place taken at most once, the first being the pre-read.
C23_StrictOrder ==
    /\ Len(log) >= 1 => Slot(1) = 0
    /\ \A i, j \in 1..Len(log) : i < j => Slot(i) < Slot(j)

\* The same places, with one more between the pre-read and the commands for
\* the second read of set_power(toggle) after a failed pre-read.
SlotWithRefetch(i) ==
    IF i = 2 /\ ToggleAfterFailedPreRead /\ log[i].request.command = "serverinfo"
    THEN 1 ELSE IF Slot(i) = 0 THEN 0 ELSE Slot(i) + 1

\* C23, amended: the round trips of a call are in the order pre-read,
\* second read (toggle after a failed pre-read only), auto power-on, power,
\* brightness, effect or colour, preset command, post-read, each at most
\* once; a finished call in which no command raised ends with the post-read.
C23_OrderWithRefetch ==
    /\ Len(log) >= 1 => SlotWithRefetch(1) = 0
    /\ \A i \in 1..Len(log) : SlotWithRefetch(i) <= 8
    /\ \A i, j \in 1..Len(log) : i < j => SlotWithRefetch(i) < SlotWithRefetch(j)
    /\ (pc = "done" /\ Len(log) >= 1 /\ ~ CommandRaised) =>
          SlotWithRefetch(Len(log)) = 8

\* set_effect with a brightness on a disabled device, every round trip
\* answered: pre-read, power-on, adjustment, effect, post-read.
C23_Witness ==
    /\ op = "set_effect"
    /\ pc = "done"
    /\ Len(log) = 5
    /\ AllCommandsAcknowledged
    /\ log[1].outcome = "ok"
    /\ log[2].request.command = "componentstate"
    /\ log[3].request.command = "adjustment"
    /\ log[4].request.command = "effect"
    /\ log[5].request.command = "serverinfo"

\* The texts that are well-formed JSON: the three objects and the value
\* that is no object.
WellFormedTexts == {<<"{", "T", "}">>, <<"{", "F", "}">>, <<"{", "}">>, <<"A">>}

\* The round trip got as far as the parse and is over.
Parsed == sock.tpc = "done" /\ sock.outcome # "connerr"

\* C24: a round trip whose peer closed before any newline arrived fails
\* with the parse error, also when the text received is a whole JSON
\* object; so does one whose first line is blank or not well-formed; and a
\* command round trip that failed so is the last of its call, which
\* returns connected=false.
C24_ProtocolError ==
    /\ (Parsed /\ ~ HasNewline(sock.buffer)) => sock.outcome = "badjson"
    /\ (Parsed /\ HasNewline(sock.buffer)
               /\ Strip(FirstLine(sock.buffer)) \notin WellFormedTexts) =>
          sock.outcome = "badjson"
    /\ (Parsed /\ sock.outcome # "badjson") =>
          /\ HasNewline(sock.buffer)
          /\ Strip(FirstLine(sock.buffer)) \in WellFormedTexts
    /\ \A i \in 1..Len(log) :
          (log[i].request.command # "serverinfo" /\ log[i].outcome = "badjson") =>
             /\ i = Len(log)
             /\ pc = "done"
             /\ status.connected = FALSE

\* The power command of set_power(off): the peer sent a whole object
\* without a newline and closed; the round trip ends in the parse error.
C24_Witness ==
    /\ op = "set_power"
    /\ pc = "power"
    /\ Parsed
    /\ sock.buffer = <<"{", "T", "}">>
    /\ sock.outcome = "badjson"

\* C25: a successful status names a colour entry of the preset map only
\* when the first visible source of the post-read snapshot is a COLOR
\* source whose RGB list is the entry's list, of the same length and with
\* the same components.
C25_ExactColourMatch ==
    (pc = "done" /\ "connected" \in DOMAIN status /\ status.connected) =>
        \A k \in 1..Len(preset_map) :
            ( /\ preset_map[k][2].type = "color"
              /\ status.preset_id = preset_map[k][1] ) =>
                LET info == Val(final_hyperion_info)
                    vis == VisibleAt(info)
                IN  /\ vis # {}
                    /\ LET source == info.priorities[CHOOSE i \in vis :
                                                        \A j \in vis : i <= j]
                       IN  /\ source.componentId = "COLOR"
                           /\ "value" \in DOMAIN source
                           /\ source.value.RGB = preset_map[k][2].rgb

\* C26: in a successful status, when the first visible source of the
\* post-read snapshot is an EFFECT source whose owner is the effect name of
\* some entry of the preset map, preset_id is the id of the first entry of
\* that name in map order, in a call of any kind and whether or not the
\* call sent that effect.
C26_NameOnlyMatch ==
    (pc = "done" /\ "connected" \in DOMAIN status /\ status.connected) =>
        LET info == Val(final_hyperion_info)
            vis == VisibleAt(info)
        IN  vis # {} =>
              LET source == info.priorities[CHOOSE i \in vis : \A j \in vis : i <= j]
                  named == {k \in 1..Len(preset_map) :
                               /\ preset_map[k][2].type = "effect"
                               /\ source.componentId = "EFFECT"
                               /\ "owner" \in DOMAIN source
                               /\ preset_map[k][2].name = source.owner}
              IN  \A k \in named :
                      (\A m \in named : k <= m) => status.preset_id = preset_map[k][1]

\* set_effect sent the effect of index 2, Preset02 is what is visible, and
\* of the two entries naming Preset02 the status reports the first.
C26_Witness ==
    /\ op = "set_effect"
    /\ pc = "done"
    /\ "connected" \in DOMAIN status
    /\ status.connected
    /\ preset_map = PresetMapWithSharedEffect
    /\ \E i \in 1..Len(log) : log[i].request.command = "effect"
    /\ VisibleAt(Val(final_hyperion_info)) = {1}
    /\ Val(final_hyperion_info).priorities[1].componentId = "EFFECT"
    /\ Val(final_hyperion_info).priorities[1].owner = "Preset02"
    /\ status.preset_id = 2

\* The digits d are the first digits of the decimal numeral of n, all of
\* them when whole is true.
LeadingDigitsOf(d, n, whole) ==
    /\ d # <<>>
    /\ \A j \in 1..Len(d) : DecValue(d[j]) >= 0
    /\ \E k \in 0..9 :
          /\ whole => k = 0
          /\ DigitsValue(d) * (10 ^ k) <= n
          /\ n < (DigitsValue(d) + 1) * (10 ^ k)

\* C27: every effect and colour command sent has priority 50 and an origin
\* of 4 to 20 characters; for set_color and set_effect the origin is the
\* origin identifier; for set_preset it is the identifier, "_P" and the
\* decimal preset id, whole when that fits into 20 characters and else cut
\* after the 20th.
C27_PriorityAndOrigin ==
    \A i \in 1..Len(log) :
        log[i].request.command \in {"effect", "color"} =>
            LET origin == log[i].request.origin
                n == Len(HYPERION_ORIGIN_NAME)
            IN  /\ log[i].request.priority = 50
                /\ Len(origin) >= 4
                /\ Len(origin) <= 20
                /\ op \in {"set_color", "set_effect"} => origin = HYPERION_ORIGIN_NAME
                /\ op = "set_preset" =>
                      /\ Len(origin) > n + 2
                      /\ SubSeq(origin, 1, n) = HYPERION_ORIGIN_NAME
                      /\ SubSeq(origin, n + 1, n + 2) = <<"_", "P">>
                      /\ LeadingDigitsOf(SubSeq(origin, n + 3, Len(origin)),
                                         state_params.ps, Len(origin) < 20)

\* set_preset(1234567): the colour command carries the origin cut to 20
\* characters, ending in the first five digits of the id.
C27_Witness ==
    /\ op = "set_preset"
    /\ Accepted
    /\ state_params.ps = 1234567
    /\ \E i \in 1..Len(log) :
          /\ log[i].request.command = "color"
          /\ Len(log[i].request.origin) = 20
          /\ SubSeq(log[i].request.origin, 16, 20) = <<"1", "2", "3", "4", "5">>

\* C28: while a token is set (set_auth_token with a non-empty string),
\* every request of every call made since carries it in its token member;
\* while none is set (never set, or set to the empty string), no request
\* has a token member.
C28_TokenCarried ==
    \A i \in 1..Len(log) :
        /\ auth_token \notin {None, Some("")} =>
              /\ "token" \in DOMAIN log[i].request
              /\ log[i].request.token = Val(auth_token)
        /\ auth_token \in {None, Some("")} => "token" \notin DOMAIN log[i].request

\* set_brightness after set_auth_token("secret"), on a disabled device:
\* pre-read, power-on, adjustment and post-read all carry the token.
C28_Witness ==
    /\ auth_token = Some("secret")
    /\ op = "set_brightness"
    /\ pc = "done"
    /\ Len(log) = 4
    /\ log[2].request.command = "componentstate"
    /\ log[3].request.command = "adjustment"
    /\ \A i \in 1..4 : "token" \in DOMAIN log[i].request
                         /\ log[i].request.token = "secret"

\* The call names an effect index that is not in the effect map, or a
\* preset id that is not in the preset map, and no brightness.
Untranslatable ==
    /\ Accepted
    /\ "bri" \notin DOMAIN state_params
    /\ \/ op = "set_effect" /\ EffectIndex \notin DOMAIN WLED_TO_HYPERION_EFFECT_MAP
       \/ op = "set_preset" /\ state_params.ps \notin PresetIds(preset_map)

\* C29: such a call, when its pre-read reports LEDDEVICE disabled or
\* absent, sends componentstate state=true as its second round trip and no
\* effect, colour or adjustment command at all: when no round trip raises
\* it consists of the pre-read, the power-on and the post-read.
C29_PowerOnWithoutCommand ==
    ( /\ Untranslatable
      /\ PreReadReported
      /\ ~ ReportsEnabled(Val(server_info_before)) )
    => /\ Len(log) = 1 => pc = "auto_power_on"
       /\ Len(log) >= 2 =>
             /\ log[2].request.command = "componentstate"
             /\ log[2].request.componentstate.state = TRUE
       /\ \A i \in 1..Len(log) :
             log[i].request.command \in {"serverinfo", "componentstate"}
       /\ Len(log) <= 3
       /\ (pc = "done" /\ ~ CommandRaised) =>
             /\ Len(log) = 3
             /\ log[3].request.command = "serverinfo"

\* set_preset(3) under the shipped map on a device reported disabled: the
\* power-on is acknowledged, nothing else is sent, and the post-read finds
\* the device enabled.
C29_Witness ==
    /\ Untranslatable
    /\ op = "set_preset"
    /\ PreReadReported
    /\ ~ ReportsEnabled(Val(server_info_before))
    /\ pc = "done"
    /\ Len(log) = 3
    /\ log[2].outcome = "ok"
    /\ "connected" \in DOMAIN status
    /\ status.connected
    /\ status.is_on = TRUE

====
